---- MODULE Spec2Model ----
(***************************************************************************)
(* Request execution core of the alchemy-go client library: the retry      *)
(* loop (Retrier.Do) under HTTPClient.Do / Post and JSONRPCClient.Call,    *)
(* JSON-RPC batch correlation, the request-id counter, the cursor          *)
(* pagination iterator, middleware composition, the error predicates, the  *)
(* backoff delay and the hex helpers.                                      *)
(***************************************************************************)
EXTENDS Integers, Sequences, FiniteSets, TLC

(***************************************************************************)
(* Bounds of the model.                                                    *)
(***************************************************************************)
\* Retrier.MaxRetries is drawn from -1 .. MaxRetriesBound (an int field that
\* Config.WithDefaults replaces only when it is zero).
MaxRetriesBound == 2

(***************************************************************************)
(* Errors.  A Go error value is modelled as its Unwrap chain, outermost    *)
(* link first; the nil error is the empty chain.                           *)
(***************************************************************************)
Nil == <<>>

\* A response body.  A JSON-RPC response envelope is kept by what decoding it
\* yields: valid (it is the JSON of an envelope), code (the error object's
\* code, 0 when there is no error object) and result (the kind of the raw
\* result payload: "none" when absent, or "null", "num", "str").
Body(valid, code, result) == [valid |-> valid, code |-> code, result |-> result]
NoBody   == Body(FALSE, 0, "none")
\* the text of an HTTP error page: not JSON
TextBody == Body(FALSE, 0, "text")

ErrLinkB(kind, name, num, body) ==
    [kind |-> kind, name |-> name, num |-> num, body |-> body]
ErrLink(kind, name, num) == ErrLinkB(kind, name, num, NoBody)

\* errors.go:10-21, the sentinels the retry loop hands out
ErrContextCanceled == << ErrLink("sentinel", "ErrContextCanceled", 0) >>
ErrContextDeadline == << ErrLink("sentinel", "ErrContextDeadline", 0) >>
ErrRateLimited     == << ErrLink("sentinel", "ErrRateLimited", 0) >>

\* errors/http.go:85-91
NewHTTPError(statusCode, body) == << ErrLinkB("HTTPError", "", statusCode, body) >>

\* errors.go:66-72: an AlchemyError with the given code whose cause is err
Wrap(err, code) == << ErrLink("AlchemyError", code, 0) >> \o err

\* part_001:101-107
NewJSONRPCError(code) == << ErrLink("JSONRPCError", "", code) >>

\* Errors made outside the library: a connection failure reported by the
\* HTTP transport (*url.Error around a net error), the transport's report of
\* a done context (*url.Error around context.Canceled / DeadlineExceeded),
\* a body read failure, a JSON decoding failure.
ConnFailure  == << ErrLink("external", "connection failure", 0) >>
TransportCtx == << ErrLink("external", "transport: context done", 0) >>
BodyReadErr  == << ErrLink("external", "body read failure", 0) >>
JSONErr      == << ErrLink("external", "json", 0) >>
\* A nil *http.Response dereferenced (resp.Body on a nil resp): a run-time panic
NilDerefPanic == << ErrLink("panic", "nil pointer dereference", 0) >>

\* faulty variant: 408 Request Timeout is left out
HTTPErrorIsRetryable_No408(statusCode) ==
    IF statusCode = 429 THEN TRUE
    ELSE IF statusCode >= 500 /\ statusCode < 600 THEN TRUE
    ELSE FALSE

\* errors/http.go:37-52
HTTPErrorIsRetryable(statusCode) ==
    IF statusCode = 429 THEN TRUE
    ELSE IF statusCode >= 500 /\ statusCode < 600 THEN TRUE
    ELSE IF statusCode = 408 THEN TRUE
    ELSE FALSE

\* errors.As(err, &httpErr): the first HTTPError link of the chain, if any
HasLink(err, kind) == \E i \in 1..Len(err) : err[i].kind = kind
FirstLink(err, kind) ==
    err[CHOOSE i \in 1..Len(err) :
            /\ err[i].kind = kind
            /\ \A j \in 1..(i-1) : err[j].kind # kind]

\* errors.Is(err, target) for a sentinel target
ErrorsIs(err, target) == \E i \in 1..Len(err) : err[i] = target[1]

\* errors.go:93-116
IsRetryable(err) ==
    IF err = Nil THEN FALSE
    ELSE IF HasLink(err, "HTTPError")
         THEN HTTPErrorIsRetryable(FirstLink(err, "HTTPError").num)
    ELSE IF ErrorsIs(err, ErrRateLimited) THEN TRUE
    ELSE IF ErrorsIs(err, ErrContextCanceled) \/ ErrorsIs(err, ErrContextDeadline)
         THEN FALSE
    ELSE FALSE

\* part_003:324-329
NewAPIError(errType) == << ErrLink("APIError", errType, 0) >>

\* part_003:313-321
APIErrorIsRetryable(errType) == errType \in {"RATE_LIMIT_EXCEEDED", "INTERNAL_ERROR"}

\* errors.go:141-162
IsRateLimitError(err) ==
    IF err = Nil THEN FALSE
    ELSE IF ErrorsIs(err, ErrRateLimited) THEN TRUE
    ELSE IF HasLink(err, "HTTPError") THEN FirstLink(err, "HTTPError").num = 429
    ELSE IF HasLink(err, "APIError")
         THEN FirstLink(err, "APIError").name = "RATE_LIMIT_EXCEEDED"
    ELSE FALSE

\* eth.go:415-418
ShouldRetry(err) == IsRetryable(err)

\* part_001:78-90
JSONRPCErrorIsRetryable(code) ==
    (code >= -32099 /\ code <= -32000) \/ code = -32603

(***************************************************************************)
(* State.                                                                  *)
(***************************************************************************)
VARIABLES
    \* --- one logical request: JSONRPCClient.Call > Post > Do > Retrier.Do
    MaxRetries,   \* Retrier.MaxRetries
    ctx,          \* the caller's context: "live", "canceled" or "deadline"
    target,       \* Call's result argument: "nil" or a pointer to an "int"
    pc,           \* position in Retrier.Do: "loop", "fn", "sleep", "done"
    attempt,      \* Retrier.Do's loop variable
    rLastErr,     \* Retrier.Do's lastErr (a fn return value)
    lastErr,      \* HTTPClient.Do's lastErr
    resp,         \* HTTPClient.Do's resp
    outcomes,     \* what the composed handler returned, attempt by attempt
    sleeps,       \* backoff sleeps entered
    cancelledAt,  \* where the call was when the context became done
    retErr,       \* what Retrier.Do returned
    doRes,        \* what HTTPClient.Do returned
    postRes,      \* what HTTPClient.Post returned
    callRes,      \* what JSONRPCClient.Call returned, and the target's content
    reqBody,      \* req.Body: "none", or a reader that is "unread" or "consumed"
    sent,         \* the body each attempt put on the wire: "none", "full" or "empty"
    \* --- one JSONRPCClient.BatchCall
    calls,        \* the calls argument: per call, its Result target
    bPhase,       \* "ready" before the call, "done" after it
    bRequests,    \* the request array handed to Post
    bPosts,       \* POSTs issued
    bAnswer,      \* what Post returned to BatchCall
    bResults,     \* the returned []BatchResult
    bErr,         \* the returned top-level error
    \* --- concurrent callers of Call / CallRaw and the request-id counter
    requestIDCounter,  \* the package variable behind NextRequestID
    issued,            \* the ids NextRequestID returned, in the order of the increments
    callerPc,          \* per caller: "idle", or "posting" (id taken, request in flight)
    callerReq,         \* per caller: the JSONRPCRequest being sent (method and ID)
    callsMade,         \* per caller: calls started
    \* --- one AssetTransfersIterator and the endpoint it pages through
    srvLen,       \* endpoint: pages 1..srvLen form the chain (page c < srvLen gives cursor c+1)
    srvItems,     \* endpoint: number of transfers on each page
    failAt,       \* endpoint: the page whose fetch fails (0: none)
    startKey,     \* params.PageKey handed to GetAssetTransfersIterator
    it,           \* the iterator's fields: params.PageKey, current, index, done, err
    fresh,        \* no method has been called on the iterator since construction
    lastOp,       \* the last method called, what it returned and what it fetched
    \* --- goroutines calling Next and HasNext on that one iterator
    mu,           \* it.mu: 0 when free, else the goroutine holding it
    gPc,          \* per goroutine: "idle", "locked" (lock taken), "read" (fields read)
    gOp,          \* per goroutine: the method it is in, "Next" or "HasNext"
    gSnap,        \* per goroutine: the iterator fields as it read them
    delivered,    \* the items Next calls have returned, in the order of the returns
    pagesFetched, \* the page keys fetched, in the order of the fetches
    \* --- one composition of a middleware list and the runs of the handler
    middlewares,  \* the registered list: per middleware, whether it calls next
    composer,     \* who composes: "Do" (HTTPClient.Do) or "Chain"
    chPc,         \* "compose", "down", "up", "returned"
    chI,          \* the loop variable i of the composition loop
    handler,      \* the composed handler: the middlewares around the base, outermost first
    chDepth,      \* how many middlewares of the handler the running request is inside
    trace,        \* what the current attempt passed through, in order
    chAttempts,   \* attempts started with the composed handler
    \* --- one classification of an error value
    clsErr,       \* the error given to errors.IsRetryable
    clsPc,        \* "ready" before the call, "done" after it
    clsVerdict,   \* what it returned
    clsRateLimit, \* what errors.IsRateLimitError returned for the same error
    \* --- one Retrier and the backoff delays it computes
    retrier,      \* its fields InitialDelay, MaxDelay, Multiplier, Jitter
    delays,       \* what calculateDelay returned for attempt 0, 1, ..., in order
    \* --- one use of the hex helpers
    hexN,         \* the number given to EncodeUint64 or SetMaxCount
    hexStr,       \* the string EncodeUint64 returned
    hexOut,       \* what DecodeUint64 returned for it: value and error
    maxCount,     \* AssetTransfersParams.MaxCount
    hexPc         \* "ready", "encoded", "decoded", "set"

reqVars == << MaxRetries, ctx, target, pc, attempt, rLastErr, lastErr, resp,
              outcomes, sleeps, cancelledAt, retErr, doRes, postRes, callRes,
              reqBody, sent >>

batchVars == << calls, bPhase, bRequests, bPosts, bAnswer, bResults, bErr >>

idVars == << requestIDCounter, issued, callerPc, callerReq, callsMade >>

iterVars == << srvLen, srvItems, failAt, startKey, it, fresh, lastOp >>

concVars == << mu, gPc, gOp, gSnap, delivered, pagesFetched >>

chainVars == << middlewares, composer, chPc, chI, handler, chDepth, trace, chAttempts >>

clsVars == << clsErr, clsPc, clsVerdict, clsRateLimit >>

delayVars == << retrier, delays >>

hexVars == << hexN, hexStr, hexOut, maxCount, hexPc >>

vars == << reqVars, batchVars, idVars, iterVars, concVars, chainVars, clsVars,
          delayVars, hexVars >>
notReqVars == << batchVars, idVars, iterVars, concVars, chainVars, clsVars,
    delayVars, hexVars >>
notBatchVars == << reqVars, idVars, iterVars, concVars, chainVars, clsVars,
    delayVars, hexVars >>
notIdVars == << reqVars, batchVars, iterVars, concVars, chainVars, clsVars,
    delayVars, hexVars >>
notIterVars == << reqVars, batchVars, idVars, concVars, chainVars, clsVars,
    delayVars, hexVars >>
notConcVars == << reqVars, batchVars, idVars, chainVars, clsVars,
    delayVars, hexVars >>
notChainVars == << reqVars, batchVars, idVars, iterVars, concVars, clsVars,
    delayVars, hexVars >>
notClsVars == << reqVars, batchVars, idVars, iterVars, concVars, chainVars,
    delayVars, hexVars >>
notDelayVars == << reqVars, batchVars, idVars, iterVars, concVars, chainVars, clsVars,
    hexVars >>
notHexVars == << reqVars, batchVars, idVars, iterVars, concVars, chainVars, clsVars,
    delayVars >>

(***************************************************************************)
(* HTTP responses and what one run of the composed handler can return.     *)
(***************************************************************************)
Response(status, body, readOk) ==
    [status |-> status, body |-> body, readOk |-> readOk]
\* the nil *http.Response
NoResp == Response(0, NoBody, TRUE)

\* Envelopes a 2xx answer can carry
InvalidParams == -32602
ServerErrorEnd == -32000
EnvelopeBodies ==
    { Body(TRUE, 0, "num"), Body(TRUE, 0, "str"), Body(TRUE, 0, "none"),
      Body(TRUE, InvalidParams, "none"), Body(TRUE, ServerErrorEnd, "none"),
      Body(TRUE, ServerErrorEnd, "num"),
      Body(FALSE, 0, "none") }

\* Statuses the server answers with.  readOk = FALSE: reading the body fails
\* part-way; for 429 and >= 500 the code discards that failure (part_000:97).
RetryStatuses == {429, 500, 503, 599, 600}
PlainStatuses == {404, 408}
Responses ==
    { Response(200, b, r) : b \in EnvelopeBodies, r \in BOOLEAN }
    \cup { Response(s, TextBody, r) : s \in PlainStatuses, r \in BOOLEAN }
    \cup { Response(s, TextBody, TRUE) : s \in RetryStatuses }

\* Errors the composed handler can return: the transport's (http.Client.Do
\* returns a nil response with them) and those of a short-circuiting middleware.
HandlerErrors(c) ==
    { ConnFailure, ErrRateLimited,
      NewHTTPError(503, TextBody), NewHTTPError(404, TextBody) }
    \cup (IF c = "live" THEN {} ELSE { TransportCtx })

Outcome(r, e) == [resp |-> r, err |-> e]
Outcomes(c) ==
    { Outcome(r, Nil) : r \in Responses }
    \cup { Outcome(NoResp, e) : e \in HandlerErrors(c) }

\* The request's body across the attempts.  Post hands Do one *http.Request
\* whose Body is a reader over the marshalled bytes (part_000:133-142);
\* doRequest copies the request for the context, not the Body, and gives it to
\* http.Client.Do (part_000:121-124), which reads the Body to its end while it
\* sends.  A later attempt finds the reader at its end: the transport has the
\* declared Content-Length and no bytes to send and fails.
BodyLengthErr == << ErrLink("external", "http: ContentLength with Body length 0", 0) >>

\* faulty variant: the reader is not advanced by sending
BodyAfter_Rewound(body, o) == body

\* req.Body after an attempt that returned o: sending the request reads it
BodyAfter(body, o) ==
    IF o.err = Nil /\ body = "unread" THEN "consumed" ELSE body

\* what the attempt put on the wire (nothing when the handler failed before
\* sending)
Transmitted(body, o) ==
    IF o.err = Nil THEN << IF body = "none" THEN "none" ELSE "full" >>
    ELSE IF o.err = BodyLengthErr THEN << "empty" >>
    ELSE <<>>

\* What one run of the handler can return, given the state of req.Body.
AttemptOutcomes(c, body) ==
    IF body = "consumed"
    THEN { Outcome(NoResp, e) : e \in HandlerErrors(c) \cup { BodyLengthErr } }
    ELSE Outcomes(c)

(***************************************************************************)
(* HTTPClient.Do: the closure handed to the retrier, and the tail of Do.   *)
(***************************************************************************)
\* A value fn returns: err itself, or &stopRetry{err} (stop = TRUE).
FnRet(stop, err) == [stop |-> stop, err |-> err]

\* faulty variant: every 4xx and 5xx status taken for retryable
DoStatusRetryable_From400(statusCode) == statusCode >= 400

\* part_000:96
DoStatusRetryable(statusCode) == statusCode = 429 \/ statusCode >= 500

\* part_000:82-104.  o is what handler(ctx, req) returned.
DoFn(o, prevLastErr) ==
    IF o.err # Nil
    THEN [ resp |-> o.resp, lastErr |-> o.err,
           ret |-> IF IsRetryable(o.err) THEN FnRet(FALSE, o.err)
                   ELSE FnRet(TRUE, o.err) ]
    ELSE IF DoStatusRetryable(o.resp.status)
    THEN LET e == NewHTTPError(o.resp.status, o.resp.body)
         IN  [ resp |-> o.resp, lastErr |-> e, ret |-> FnRet(FALSE, e) ]
    ELSE [ resp |-> o.resp, lastErr |-> prevLastErr, ret |-> FnRet(FALSE, Nil) ]

DoRes(r, e) == [resp |-> r, err |-> e]

\* faulty variant: the stop-retrying marker is handed to the caller as it is
DoReturn_KeepsMarker(ret, le, r) ==
    IF ret.err # Nil
    THEN IF ret.stop THEN DoRes(NoResp, << ErrLink("stopRetry", "", 0) >> \o ret.err)
         ELSE IF le # Nil THEN DoRes(NoResp, le)
         ELSE DoRes(NoResp, ret.err)
    ELSE DoRes(r, Nil)

\* faulty variant: an earlier attempt's error is returned although the last
\* attempt succeeded
DoReturn_LastErrFirst(ret, le, r) ==
    IF ret.err # Nil \/ le # Nil
    THEN IF ret.stop THEN DoRes(NoResp, ret.err)
         ELSE IF le # Nil THEN DoRes(NoResp, le)
         ELSE DoRes(NoResp, ret.err)
    ELSE DoRes(r, Nil)

\* part_000:106-117.  ret is what retrier.Do returned.
DoReturn(ret, le, r) ==
    IF ret.err # Nil
    THEN IF ret.stop THEN DoRes(NoResp, ret.err)
         ELSE IF le # Nil THEN DoRes(NoResp, le)
         ELSE DoRes(NoResp, ret.err)
    ELSE DoRes(r, Nil)

(***************************************************************************)
(* HTTPClient.Post and JSONRPCClient.Call on top of Do.                    *)
(***************************************************************************)
PostRes(b, e) == [body |-> b, err |-> e]

\* part_000:150-166
PostReturn(d) ==
    IF d.err # Nil THEN PostRes(NoBody, d.err)
    ELSE IF d.resp = NoResp THEN PostRes(NoBody, NilDerefPanic)
    ELSE IF ~d.resp.readOk THEN PostRes(NoBody, Wrap(BodyReadErr, "READ_ERROR"))
    ELSE IF d.resp.status < 200 \/ d.resp.status >= 300
         THEN PostRes(NoBody, NewHTTPError(d.resp.status, d.resp.body))
    ELSE PostRes(d.resp.body, Nil)

\* json.Unmarshal of a raw result into the caller's target: a number decodes
\* into an int, a string does not, null leaves the target as it was.
DecodeOk(result, tgt) == result \in {"num", "null"}
Decoded(result, tgt, old) == IF result = "num" THEN "num" ELSE old

CallRes(e, out) == [err |-> e, out |-> out]

\* faulty variant: the result is decoded before the error object is looked at
CallReturn_ResultFirst(p, tgt) ==
    IF p.err # Nil THEN CallRes(p.err, "unset")
    ELSE IF ~p.body.valid THEN CallRes(Wrap(JSONErr, "UNMARSHAL_ERROR"), "unset")
    ELSE IF tgt # "nil" /\ p.body.result # "none"
         THEN IF DecodeOk(p.body.result, tgt)
              THEN CallRes(IF p.body.code # 0 THEN NewJSONRPCError(p.body.code) ELSE Nil,
                           Decoded(p.body.result, tgt, "unset"))
              ELSE CallRes(Wrap(JSONErr, "UNMARSHAL_ERROR"), "unset")
    ELSE IF p.body.code # 0 THEN CallRes(NewJSONRPCError(p.body.code), "unset")
    ELSE CallRes(Nil, "unset")

\* part_000:295-315.  tgt is Call's result argument, out the target's content.
CallReturn(p, tgt) ==
    IF p.err # Nil THEN CallRes(p.err, "unset")
    ELSE IF ~p.body.valid THEN CallRes(Wrap(JSONErr, "UNMARSHAL_ERROR"), "unset")
    ELSE IF p.body.code # 0 THEN CallRes(NewJSONRPCError(p.body.code), "unset")
    ELSE IF tgt # "nil" /\ p.body.result # "none"
         THEN IF DecodeOk(p.body.result, tgt)
              THEN CallRes(Nil, Decoded(p.body.result, tgt, "unset"))
              ELSE CallRes(Wrap(JSONErr, "UNMARSHAL_ERROR"), "unset")
    ELSE CallRes(Nil, "unset")

(***************************************************************************)
(* Retrier.Do (eth.go:340-389), run by HTTPClient.Do.                      *)
(***************************************************************************)
\* faulty variant: one iteration short
RetryLoopCond_Strict(n) == n < MaxRetries

\* eth.go:343, the loop condition
RetryLoopCond(n) == n <= MaxRetries

\* faulty variant: the context is never looked at
ContextDone_Never(c) == FALSE

\* eth.go:345, ctx.Err() != nil
ContextDone(c) == c # "live"

\* eth.go:346-349 and 380-383
CtxErr(c) == IF c = "canceled" THEN ErrContextCanceled ELSE ErrContextDeadline

\* Retrier.Do returns ret; HTTPClient.Do, Post and Call return in their turn.
Finish(ret, le, r) ==
    /\ pc' = "done"
    /\ retErr' = ret
    /\ doRes' = DoReturn(ret, le, r)
    /\ postRes' = PostReturn(doRes')
    /\ callRes' = CallReturn(postRes', target)

\* What Post returned to BatchCall: an error, a body that is not a JSON array
\* of envelopes, or an array of response entries.
BatchAnswer(e, isArray, responses) ==
    [err |-> e, isArray |-> isArray, responses |-> responses]
\* no Post made
NoAnswer == BatchAnswer(Nil, FALSE, <<>>)

\* Where the call was when its context became done ("never": still live;
\* "before": done when the call was made) and the handler runs made by then.
CancelPoint(at, n) == [at |-> at, calls |-> n]

InitRequest ==
    /\ MaxRetries \in -1..MaxRetriesBound
    /\ ctx \in {"live", "canceled", "deadline"}
    /\ target \in {"nil", "int"}
    /\ pc = "loop"
    /\ attempt = 0
    /\ rLastErr = FnRet(FALSE, Nil)
    /\ lastErr = Nil
    /\ resp = NoResp
    /\ outcomes = <<>>
    /\ sleeps = 0
    /\ cancelledAt = CancelPoint(IF ctx = "live" THEN "never" ELSE "before", 0)
    /\ retErr = FnRet(FALSE, Nil)
    /\ doRes = DoRes(NoResp, Nil)
    /\ postRes = PostRes(NoBody, Nil)
    /\ callRes = CallRes(Nil, "unset")
    /\ reqBody \in {"none", "unread"}
    /\ sent = <<>>

\* The other components at rest while a request runs.
IdleBatch ==
    /\ calls = <<>>
    /\ bPhase = "idle"
    /\ bRequests = <<>>
    /\ bPosts = 0
    /\ bAnswer = NoAnswer
    /\ bResults = <<>>
    /\ bErr = Nil

(***************************************************************************)
(* AssetTransfersIterator (middleware.go:531-693); NFTsForOwnerIterator    *)
(* (part_006:63-195) has the same fields and the same Next and HasNext.    *)
(***************************************************************************)
\* A page key: 0 is the empty string, c >= 2 is the cursor that names page c.
EmptyKey == 0

\* An AssetTransfersResponse; the nil pointer is NoPage.
PageOf(transfers, pageKey) ==
    [isNil |-> FALSE, transfers |-> transfers, pageKey |-> pageKey]
NoPage == [isNil |-> TRUE, transfers |-> <<>>, pageKey |-> EmptyKey]

\* The iterator's fields right after GetAssetTransfersIterator
\* (middleware.go:532-540): the params copy, everything else zero.
NewIterator(key) ==
    [pageKey |-> key, current |-> NoPage, index |-> 0, done |-> FALSE, err |-> Nil]

OpResult(name, item, items, err, bool, fetched, wasFresh) ==
    [name |-> name, item |-> item, items |-> items, err |-> err, bool |-> bool,
     fetched |-> fetched, fresh |-> wasFresh]
NoOp == OpResult("none", 0, <<>>, Nil, FALSE, <<>>, FALSE)

\* No iterator in use.
IdleIterator ==
    /\ srvLen = 0
    /\ srvItems = << >>
    /\ failAt = 0
    /\ startKey = EmptyKey
    /\ it = NewIterator(EmptyKey)
    /\ fresh = TRUE
    /\ lastOp = NoOp

\* No goroutine on the iterator.
IdleGoroutines ==
    /\ mu = 0
    /\ gPc = << >>
    /\ gOp = << >>
    /\ gSnap = << >>
    /\ delivered = <<>>
    /\ pagesFetched = <<>>

\* No middleware list being composed.
IdleChain ==
    /\ middlewares = <<>>
    /\ composer = "none"
    /\ chPc = "idle"
    /\ chI = 0
    /\ handler = <<>>
    /\ chDepth = 0
    /\ trace = <<>>
    /\ chAttempts = 0

\* No error being classified.
IdleClassifier ==
    /\ clsErr = Nil
    /\ clsPc = "idle"
    /\ clsVerdict = FALSE
    /\ clsRateLimit = FALSE

\* No delay being computed.
IdleDelay ==
    /\ retrier = << >>
    /\ delays = <<>>

\* No number being encoded.
IdleHex ==
    /\ hexN = 0
    /\ hexStr = <<>>
    /\ hexOut = << >>
    /\ maxCount = <<>>
    /\ hexPc = "idle"

\* part_000:251: the counter before any call; nobody calling
IdleCallers ==
    /\ requestIDCounter = 0
    /\ issued = <<>>
    /\ callerPc = << >>
    /\ callerReq = << >>
    /\ callsMade = << >>

\* eth.go:343 fails, eth.go:388
LoopExit ==
    /\ UNCHANGED notReqVars
    /\ pc = "loop"
    /\ ~RetryLoopCond(attempt)
    /\ Finish(rLastErr, lastErr, resp)
    /\ UNCHANGED << reqBody, sent, MaxRetries, ctx, target, attempt, rLastErr, lastErr, resp,
                    outcomes, sleeps, cancelledAt >>

\* eth.go:345-350
CtxCheckFails ==
    /\ UNCHANGED notReqVars
    /\ pc = "loop"
    /\ RetryLoopCond(attempt)
    /\ ContextDone(ctx)
    /\ Finish(FnRet(FALSE, CtxErr(ctx)), lastErr, resp)
    /\ UNCHANGED << reqBody, sent, MaxRetries, ctx, target, attempt, rLastErr, lastErr, resp,
                    outcomes, sleeps, cancelledAt >>

\* eth.go:345 passes: fn is about to be called
BeginAttempt ==
    /\ UNCHANGED notReqVars
    /\ pc = "loop"
    /\ RetryLoopCond(attempt)
    /\ ~ContextDone(ctx)
    /\ pc' = "fn"
    /\ UNCHANGED << reqBody, sent, MaxRetries, ctx, target, attempt, rLastErr, lastErr, resp,
                    outcomes, sleeps, cancelledAt, retErr, doRes, postRes,
                    callRes >>

\* eth.go:352-372 around part_000:82-104: one run of fn and what the loop
\* does with its return value.
Attempt ==
    /\ UNCHANGED notReqVars
    /\ pc = "fn"
    /\ \E o \in AttemptOutcomes(ctx, reqBody) :
          LET f == DoFn(o, lastErr) IN
          /\ outcomes' = Append(outcomes, o)
          /\ reqBody' = BodyAfter(reqBody, o)
          /\ sent' = sent \o Transmitted(reqBody, o)
          /\ lastErr' = f.lastErr
          /\ resp' = f.resp
          /\ IF f.ret.err = Nil
             THEN /\ Finish(FnRet(FALSE, Nil), f.lastErr, f.resp)
                  /\ UNCHANGED << rLastErr, sleeps >>
             ELSE /\ rLastErr' = f.ret
                  /\ IF f.ret.stop \/ ~ShouldRetry(f.ret.err)
                        \/ attempt = MaxRetries
                     THEN /\ Finish(f.ret, f.lastErr, f.resp)
                          /\ UNCHANGED sleeps
                     ELSE /\ pc' = "sleep"
                          /\ sleeps' = sleeps + 1
                          /\ UNCHANGED << retErr, doRes, postRes, callRes >>
    /\ UNCHANGED << MaxRetries, ctx, target, attempt, cancelledAt >>

\* eth.go:384: the timer of the select fires
TimerFires ==
    /\ UNCHANGED notReqVars
    /\ pc = "sleep"
    /\ pc' = "loop"
    /\ attempt' = attempt + 1
    /\ UNCHANGED << reqBody, sent, MaxRetries, ctx, target, rLastErr, lastErr, resp, outcomes,
                    sleeps, cancelledAt, retErr, doRes, postRes, callRes >>

\* eth.go:379-383: the select takes ctx.Done()
SleepCancelled ==
    /\ UNCHANGED notReqVars
    /\ pc = "sleep"
    /\ ContextDone(ctx)
    /\ Finish(FnRet(FALSE, CtxErr(ctx)), lastErr, resp)
    /\ UNCHANGED << reqBody, sent, MaxRetries, ctx, target, attempt, rLastErr, lastErr, resp,
                    outcomes, sleeps, cancelledAt >>

\* The caller cancels the context, or its deadline passes, while the call runs.
CancelCtx ==
    /\ UNCHANGED notReqVars
    /\ ctx = "live"
    /\ pc \in {"loop", "fn", "sleep"}
    /\ ctx' \in {"canceled", "deadline"}
    /\ cancelledAt' = CancelPoint(pc, Len(outcomes))
    /\ UNCHANGED << reqBody, sent, MaxRetries, target, pc, attempt, rLastErr, lastErr, resp,
                    outcomes, sleeps, retErr, doRes, postRes, callRes >>

Init ==
    /\ InitRequest /\ IdleBatch /\ IdleCallers /\ IdleIterator
    /\ IdleGoroutines /\ IdleChain /\ IdleClassifier
    /\ IdleDelay /\ IdleHex

NextRequest ==
    \/ LoopExit
    \/ CtxCheckFails
    \/ BeginAttempt
    \/ Attempt
    \/ TimerFires
    \/ SleepCancelled
    \/ CancelCtx

Spec == Init /\ [][NextRequest]_vars

(***************************************************************************)
(* JSONRPCClient.BatchCall (part_000:366-431).                             *)
(***************************************************************************)
\* Bounds: calls per batch, and entries in the server's response array.
MaxBatch == 3
MaxResponses == 2

\* Go index i (0-based) of a slice kept as a TLA+ sequence
At(seq, i) == seq[i + 1]

\* faulty variant: ids start at 0
BatchID_FromZero(i) == i

\* part_000:378 and 402: the id of call i
BatchID(i) == i + 1

\* faulty variant: the early return is missing
BatchIsEmpty_Never(cs) == FALSE

\* part_000:367
BatchIsEmpty(cs) == Len(cs) = 0

\* part_000:372-380
BuildRequests(cs) == [k \in 1..Len(cs) |-> [id |-> BatchID(k - 1)]]

\* One entry of the response array: its id, its error object's code (0: no
\* error object) and the kind of its raw result.
BatchCallResponse(id, code, result) == [id |-> id, code |-> code, result |-> result]

\* part_000:394-397: the map is filled entry by entry, a later entry with the
\* same id replacing an earlier one.  Kept as id -> index into responses.
RECURSIVE FillResponseMap(_, _, _)
FillResponseMap(responses, k, m) ==
    IF k > Len(responses) THEN m
    ELSE FillResponseMap(responses, k + 1,
            [id \in DOMAIN m \cup {responses[k].id} |->
                IF id = responses[k].id THEN k ELSE m[id]])
ResponseMap(responses) == FillResponseMap(responses, 1, << >>)

\* A BatchResult: its Error, whether Result holds the call's target, and what
\* the target then contains.
BatchResult(e, set, out) == [err |-> e, result |-> set, out |-> out]
MissingResponse(i) == << ErrLink("external", "missing response for call", i) >>

\* faulty variant: entries matched to calls by position in the array, not by id
BatchSlot_ByPosition(cs, responses, i) ==
    IF i + 1 > Len(responses)
    THEN BatchResult(MissingResponse(i), FALSE, "unset")
    ELSE LET r == responses[i + 1] IN
         IF r.code # 0
         THEN BatchResult(NewJSONRPCError(r.code), FALSE, "unset")
         ELSE IF At(cs, i) # "nil" /\ r.result # "none"
              THEN IF DecodeOk(r.result, At(cs, i))
                   THEN BatchResult(Nil, TRUE, Decoded(r.result, At(cs, i), "unset"))
                   ELSE BatchResult(Wrap(JSONErr, "UNMARSHAL_ERROR"), FALSE, "unset")
              ELSE BatchResult(Nil, FALSE, "unset")

\* part_000:401-428, one iteration: the slot of call i
BatchSlot(cs, responses, i) ==
    LET m == ResponseMap(responses) IN
    IF BatchID(i) \notin DOMAIN m
    THEN BatchResult(MissingResponse(i), FALSE, "unset")
    ELSE LET r == responses[m[BatchID(i)]] IN
         IF r.code # 0
         THEN BatchResult(NewJSONRPCError(r.code), FALSE, "unset")
         ELSE IF At(cs, i) # "nil" /\ r.result # "none"
              THEN IF DecodeOk(r.result, At(cs, i))
                   THEN BatchResult(Nil, TRUE, Decoded(r.result, At(cs, i), "unset"))
                   ELSE BatchResult(Wrap(JSONErr, "UNMARSHAL_ERROR"), FALSE, "unset")
              ELSE BatchResult(Nil, FALSE, "unset")

SeqsUpTo(S, n) == UNION { [1..k -> S] : k \in 0..n }

ResponseEntries ==
    { BatchCallResponse(id, code, result) :
        id \in 1..(MaxBatch + 1),
        code \in {0},
        result \in {"num", "str", "none"} }
    \cup { BatchCallResponse(id, ServerErrorEnd, "none") : id \in 1..(MaxBatch + 1) }

BatchAnswers ==
    { BatchAnswer(NewHTTPError(503, TextBody), FALSE, <<>>),
      BatchAnswer(Nil, FALSE, <<>>) }
    \cup { BatchAnswer(Nil, TRUE, rs) : rs \in SeqsUpTo(ResponseEntries, MaxResponses) }

InitBatch ==
    /\ calls \in SeqsUpTo({"nil", "int"}, MaxBatch)
    /\ bPhase = "ready"
    /\ bRequests = <<>>
    /\ bPosts = 0
    /\ bAnswer = NoAnswer
    /\ bResults = <<>>
    /\ bErr = Nil

\* part_000:366-431
BatchCall ==
    /\ UNCHANGED notBatchVars
    /\ bPhase = "ready"
    /\ bPhase' = "done"
    /\ UNCHANGED calls
    /\ IF BatchIsEmpty(calls)
       THEN /\ bResults' = <<>>
            /\ bErr' = Nil
            /\ UNCHANGED << bRequests, bPosts, bAnswer >>
       ELSE /\ bRequests' = BuildRequests(calls)
            /\ bPosts' = bPosts + 1
            /\ \E a \in BatchAnswers :
                  /\ bAnswer' = a
                  /\ IF a.err # Nil
                     THEN /\ bResults' = <<>>
                          /\ bErr' = a.err
                     ELSE IF ~a.isArray
                     THEN /\ bResults' = <<>>
                          /\ bErr' = Wrap(JSONErr, "UNMARSHAL_ERROR")
                     ELSE /\ bResults' = [k \in 1..Len(calls) |->
                                             BatchSlot(calls, a.responses, k - 1)]
                          /\ bErr' = Nil

\* The request components at rest while a batch runs.
IdleRequest ==
    /\ MaxRetries = 0
    /\ ctx = "live"
    /\ target = "nil"
    /\ pc = "idle"
    /\ attempt = 0
    /\ rLastErr = FnRet(FALSE, Nil)
    /\ lastErr = Nil
    /\ resp = NoResp
    /\ outcomes = <<>>
    /\ sleeps = 0
    /\ cancelledAt = CancelPoint("never", 0)
    /\ retErr = FnRet(FALSE, Nil)
    /\ doRes = DoRes(NoResp, Nil)
    /\ postRes = PostRes(NoBody, Nil)
    /\ callRes = CallRes(Nil, "unset")
    /\ reqBody = "none"
    /\ sent = <<>>

BatchInit ==
    /\ InitBatch /\ IdleRequest /\ IdleCallers /\ IdleIterator
    /\ IdleGoroutines /\ IdleChain /\ IdleClassifier
    /\ IdleDelay /\ IdleHex

SpecBatch == BatchInit /\ [][BatchCall]_vars

(***************************************************************************)
(* NextRequestID (part_000:250-256) under concurrent Call and CallRaw.     *)
(***************************************************************************)
\* Bounds: concurrent callers, and calls each of them makes.
NumCallers == 2
MaxCallsEach == 2

Callers == 1..NumCallers

\* faulty variant: the sum is returned but not stored: a lost update
AtomicAddUint64_NotStored(old, delta) == [stored |-> old, returned |-> old + delta]

\* atomic.AddUint64(&requestIDCounter, 1) at part_000:255: one indivisible
\* step that stores old+delta and returns it.  (The counter is a uint64; the
\* calls modelled stay far below 2^64.)
AtomicAddUint64(old, delta) == [stored |-> old + delta, returned |-> old + delta]

JSONRPCRequest(method, id) == [method |-> method, id |-> id]
NoRequest == JSONRPCRequest("", 0)

\* part_000:288-293 (Call) and 320-325 (CallRaw): the request is built with
\* ID: NextRequestID()
BuildRequest(c, method) ==
    LET a == AtomicAddUint64(requestIDCounter, 1) IN
    /\ callerPc[c] = "idle"
    /\ callsMade[c] < MaxCallsEach
    /\ requestIDCounter' = a.stored
    /\ issued' = Append(issued, a.returned)
    /\ callerReq' = [callerReq EXCEPT ![c] = JSONRPCRequest(method, a.returned)]
    /\ callerPc' = [callerPc EXCEPT ![c] = "posting"]
    /\ callsMade' = [callsMade EXCEPT ![c] = @ + 1]

\* part_000:287-293
CallStart ==
    /\ UNCHANGED notIdVars
    /\ \E c \in Callers : BuildRequest(c, "Call")

\* part_000:319-325
CallRawStart ==
    /\ UNCHANGED notIdVars
    /\ \E c \in Callers : BuildRequest(c, "CallRaw")

\* part_000:295-316 and 327-342: Post returns and the call ends
CallEnd ==
    /\ UNCHANGED notIdVars
    /\ \E c \in Callers :
          /\ callerPc[c] = "posting"
          /\ callerPc' = [callerPc EXCEPT ![c] = "idle"]
          /\ callerReq' = [callerReq EXCEPT ![c] = NoRequest]
          /\ UNCHANGED << requestIDCounter, issued, callsMade >>

InitCallers ==
    /\ requestIDCounter = 0
    /\ issued = <<>>
    /\ callerPc = [c \in Callers |-> "idle"]
    /\ callerReq = [c \in Callers |-> NoRequest]
    /\ callsMade = [c \in Callers |-> 0]

NextIds == CallStart \/ CallRawStart \/ CallEnd

IdsInit ==
    /\ InitCallers /\ IdleRequest /\ IdleBatch /\ IdleIterator
    /\ IdleGoroutines /\ IdleChain /\ IdleClassifier
    /\ IdleDelay /\ IdleHex

SpecIds == IdsInit /\ [][NextIds]_vars

(***************************************************************************)
(* The paginated endpoint and the iterator's methods.                      *)
(***************************************************************************)
\* Bounds: pages in the endpoint's chain, transfers per page, and the largest
\* argument given to CollectN.
MaxPages == 3
MaxItems == 2
MaxCollectN == 3

\* the j-th transfer of page c (0 stands for the nil *AssetTransfer)
Item(c, j) == 10 * c + j

\* What the endpoint answers to a request with the given page key: the empty
\* key asks for page 1, cursor c for page c.
ServedPage(key) == IF key = EmptyKey THEN 1 ELSE key
FetchErr == NewHTTPError(503, TextBody)
\* middleware.go:523-529
GetAssetTransfers(key) ==
    LET c == ServedPage(key) IN
    IF c = failAt THEN [err |-> FetchErr, page |-> NoPage]
    ELSE [err |-> Nil,
          page |-> PageOf([j \in 1..(IF c <= srvLen THEN srvItems[c] ELSE 0) |-> Item(c, j)],
                          IF c < srvLen THEN c + 1 ELSE EmptyKey)]

\* faulty variant: a page never reports a further page
HasMore_Never(r) == FALSE

\* part_007:125-128
HasMore(r) == r.pageKey # EmptyKey

\* middleware.go:685-693
FetchNext(i) ==
    LET g == GetAssetTransfers(i.pageKey) IN
    IF g.err # Nil THEN [it |-> i, err |-> g.err]
    ELSE [it |-> [i EXCEPT !.current = g.page, !.index = 0], err |-> Nil]

NextRes(i, item, err, fetched) ==
    [it |-> i, item |-> item, err |-> err, fetched |-> fetched]

\* faulty variant: an empty next page does not end the iteration
NextPage_EmptyNotDone(i) ==
    LET i2 == [i EXCEPT !.pageKey = i.current.pageKey]
        f  == FetchNext(i2)
    IN  IF f.err # Nil
        THEN NextRes([i2 EXCEPT !.err = f.err], 0, f.err, << i2.pageKey >>)
        ELSE IF Len(f.it.current.transfers) = 0
        THEN NextRes(f.it, 0, Nil, << i2.pageKey >>)
        ELSE NextRes([f.it EXCEPT !.index = 1], f.it.current.transfers[1], Nil,
                     << i2.pageKey >>)

\* middleware.go:589-603: the next page is fetched with the current page's key
NextPage(i) ==
    LET i2 == [i EXCEPT !.pageKey = i.current.pageKey]
        f  == FetchNext(i2)
    IN  IF f.err # Nil
        THEN NextRes([i2 EXCEPT !.err = f.err], 0, f.err, << i2.pageKey >>)
        ELSE IF Len(f.it.current.transfers) = 0
        THEN NextRes([f.it EXCEPT !.done = TRUE], 0, Nil, << i2.pageKey >>)
        ELSE NextRes([f.it EXCEPT !.index = 1], f.it.current.transfers[1], Nil,
                     << i2.pageKey >>)

\* middleware.go:576-603, with a current page in hand
NextInPage(i, fetched) ==
    IF i.index < Len(i.current.transfers)
    THEN NextRes([i EXCEPT !.index = i.index + 1], At(i.current.transfers, i.index),
                 Nil, fetched)
    ELSE IF ~HasMore(i.current)
    THEN NextRes([i EXCEPT !.done = TRUE], 0, Nil, fetched)
    ELSE LET n == NextPage(i) IN NextRes(n.it, n.item, n.err, fetched \o n.fetched)

\* middleware.go:556-604, the method under its lock
NextOf(i) ==
    IF i.err # Nil THEN NextRes(i, 0, i.err, <<>>)
    ELSE IF i.done THEN NextRes(i, 0, Nil, <<>>)
    ELSE IF i.current.isNil
    THEN LET f == FetchNext(i) IN
         IF f.err # Nil
         THEN NextRes([i EXCEPT !.err = f.err], 0, f.err, << i.pageKey >>)
         ELSE NextInPage(f.it, << i.pageKey >>)
    ELSE NextInPage(i, <<>>)

\* middleware.go:607-627
HasNextOf(i) ==
    IF i.done \/ i.err # Nil THEN FALSE
    ELSE IF ~i.current.isNil /\ i.index < Len(i.current.transfers) THEN TRUE
    ELSE IF ~i.current.isNil THEN HasMore(i.current)
    ELSE TRUE

\* faulty variant: the page key of the last fetch is left in params
ResetOf_KeepsCursor(i) ==
    [i EXCEPT !.current = NoPage, !.index = 0, !.done = FALSE, !.err = Nil]

\* middleware.go:637-646
ResetOf(i) ==
    [i EXCEPT !.current = NoPage, !.index = 0, !.done = FALSE, !.err = Nil,
              !.pageKey = EmptyKey]

CollectRes(i, items, err, fetched) ==
    [it |-> i, items |-> items, err |-> err, fetched |-> fetched]

\* One pass of the loop body of Collect and CollectN (middleware.go:654-661
\* and 672-679) on what Next returned: "err" and "end" leave the loop.
LoopPass(r) == IF r.err # Nil THEN "err" ELSE IF r.item = 0 THEN "end" ELSE "more"

\* middleware.go:650-665: Next is called until it returns an error or nil.
\* (r is bound to the one result of each call of Next.)
RECURSIVE CollectLoop(_, _, _)
CollectLoop(i, transfers, fetched) ==
    CHOOSE out \in
        { CASE LoopPass(r) = "err" -> CollectRes(r.it, <<>>, r.err, fetched \o r.fetched)
            [] LoopPass(r) = "end" -> CollectRes(r.it, transfers, Nil, fetched \o r.fetched)
            [] LoopPass(r) = "more" ->
                  CollectLoop(r.it, Append(transfers, r.item), fetched \o r.fetched)
          : r \in { NextOf(i) } } : TRUE
CollectOf(i) == CollectLoop(i, <<>>, <<>>)

\* middleware.go:668-683: at most n calls of Next
RECURSIVE CollectNLoop(_, _, _, _, _)
CollectNLoop(i, n, k, transfers, fetched) ==
    IF ~(k < n) THEN CollectRes(i, transfers, Nil, fetched)
    ELSE CHOOSE out \in
        { CASE LoopPass(r) = "err" -> CollectRes(r.it, <<>>, r.err, fetched \o r.fetched)
            [] LoopPass(r) = "end" -> CollectRes(r.it, transfers, Nil, fetched \o r.fetched)
            [] LoopPass(r) = "more" ->
                  CollectNLoop(r.it, n, k + 1, Append(transfers, r.item),
                               fetched \o r.fetched)
          : r \in { NextOf(i) } } : TRUE
\* make([]AssetTransfer, 0, n) at middleware.go:669 with a negative n: a
\* run-time panic (makeslice: cap out of range)
MakeSlicePanic == << ErrLink("panic", "makeslice: cap out of range", 0) >>

\* faulty variant: the loop makes one pass too many
CollectNOf_OneMore(i, n) ==
    IF n < 0 THEN CollectRes(i, <<>>, MakeSlicePanic, <<>>)
    ELSE CollectNLoop(i, n + 1, 0, <<>>, <<>>)

CollectNOf(i, n) ==
    IF n < 0 THEN CollectRes(i, <<>>, MakeSlicePanic, <<>>)
    ELSE CollectNLoop(i, n, 0, <<>>, <<>>)

InitIterator ==
    /\ srvLen \in 1..MaxPages
    /\ srvItems \in [1..MaxPages -> 0..MaxItems]
    /\ \A c \in 1..MaxPages : c > srvLen => srvItems[c] = 0
    /\ failAt \in 0..MaxPages
    /\ startKey \in {EmptyKey, 2}
    /\ it = NewIterator(startKey)
    /\ fresh = TRUE
    /\ lastOp = NoOp

IterFrame == UNCHANGED << srvLen, srvItems, failAt, startKey >>

Next ==
    /\ UNCHANGED notIterVars /\ IterFrame
    /\ LET r == NextOf(it) IN
       /\ it' = r.it
       /\ lastOp' = OpResult("Next", r.item, <<>>, r.err, FALSE, r.fetched, fresh)
    /\ fresh' = FALSE

HasNext ==
    /\ UNCHANGED notIterVars /\ IterFrame
    /\ lastOp' = OpResult("HasNext", 0, <<>>, Nil, HasNextOf(it), <<>>, fresh)
    /\ fresh' = FALSE
    /\ UNCHANGED it

\* middleware.go:630-634
Error ==
    /\ UNCHANGED notIterVars /\ IterFrame
    /\ lastOp' = OpResult("Error", 0, <<>>, it.err, FALSE, <<>>, fresh)
    /\ fresh' = FALSE
    /\ UNCHANGED it

\* Reset returns nothing; lastOp keeps the stored error and the exhausted
\* flag it cleared.
Reset ==
    /\ UNCHANGED notIterVars /\ IterFrame
    /\ it' = ResetOf(it)
    /\ lastOp' = OpResult("Reset", 0, <<>>, it.err, it.done, <<>>, fresh)
    /\ fresh' = FALSE

Collect ==
    /\ UNCHANGED notIterVars /\ IterFrame
    /\ LET r == CollectOf(it) IN
       /\ it' = r.it
       /\ lastOp' = OpResult("Collect", 0, r.items, r.err, FALSE, r.fetched, fresh)
    /\ fresh' = FALSE

CollectN ==
    /\ UNCHANGED notIterVars /\ IterFrame
    /\ \E n \in (-1)..MaxCollectN :
         LET r == CollectNOf(it, n) IN
         /\ it' = r.it
         /\ lastOp' = OpResult("CollectN", n, r.items, r.err, FALSE, r.fetched, fresh)
    /\ fresh' = FALSE

NextIter == Next \/ HasNext \/ Error \/ Reset \/ Collect \/ CollectN

IterInit ==
    /\ InitIterator /\ IdleRequest /\ IdleBatch /\ IdleCallers
    /\ IdleGoroutines /\ IdleChain /\ IdleClassifier
    /\ IdleDelay /\ IdleHex

SpecIter == IterInit /\ [][NextIter]_vars

(***************************************************************************)
(* Goroutines calling Next and HasNext on one iterator.  Both methods     *)
(* take it.mu first and release it on return (middleware.go:557-558 and   *)
(* 608-609); in between they read the iterator's fields and then write    *)
(* them.                                                                   *)
(***************************************************************************)
\* Bounds: goroutines on the iterator, pages of the endpoint they page
\* through, transfers per page.
NumGoroutines == 2
ConcPages == 2
ConcItems == 2

Goroutines == 1..NumGoroutines

\* faulty variant: the methods do not take the lock
MutexFree_NoLock(m) == TRUE

\* it.mu.Lock() returns only when no goroutine holds the mutex
MutexFree(m) == m = 0

\* the fields before a goroutine has read them
NoSnap == NewIterator(EmptyKey)

InitGoroutines ==
    /\ mu = 0
    /\ gPc = [g \in Goroutines |-> "idle"]
    /\ gOp = [g \in Goroutines |-> "none"]
    /\ gSnap = [g \in Goroutines |-> NoSnap]
    /\ delivered = <<>>
    /\ pagesFetched = <<>>

\* The iterator the goroutines share, freshly constructed, and its endpoint.
InitSharedIterator ==
    /\ srvLen \in 1..ConcPages
    /\ srvItems \in [1..ConcPages -> 0..ConcItems]
    /\ \A c \in 1..ConcPages : c > srvLen => srvItems[c] = 0
    /\ failAt \in 0..ConcPages
    /\ startKey = EmptyKey
    /\ it = NewIterator(startKey)
    /\ fresh = TRUE
    /\ lastOp = NoOp

\* it.mu.Lock() of the method op returns in goroutine g
Lock(g, op) ==
    /\ gPc[g] = "idle"
    /\ MutexFree(mu)
    /\ mu' = g
    /\ gPc' = [gPc EXCEPT ![g] = "locked"]
    /\ gOp' = [gOp EXCEPT ![g] = op]
    /\ UNCHANGED << gSnap, delivered, pagesFetched, it >>

\* the deferred it.mu.Unlock() of goroutine g
Unlock(g) ==
    /\ mu' = 0
    /\ gPc' = [gPc EXCEPT ![g] = "idle"]
    /\ gSnap' = [gSnap EXCEPT ![g] = NoSnap]

ConcFrame == UNCHANGED << srvLen, srvItems, failAt, startKey, fresh, lastOp >>

\* middleware.go:556-557
GoNextLock ==
    /\ UNCHANGED notConcVars /\ ConcFrame
    /\ \E g \in Goroutines : Lock(g, "Next")

\* middleware.go:607-608
GoHasNextLock ==
    /\ UNCHANGED notConcVars /\ ConcFrame
    /\ \E g \in Goroutines : Lock(g, "HasNext")

\* The method reads the iterator's fields (middleware.go:560-577, 611-621).
GoRead ==
    /\ UNCHANGED notConcVars /\ ConcFrame
    /\ \E g \in Goroutines :
          /\ gPc[g] = "locked"
          /\ gPc' = [gPc EXCEPT ![g] = "read"]
          /\ gSnap' = [gSnap EXCEPT ![g] = it]
          /\ UNCHANGED << mu, gOp, delivered, pagesFetched, it >>

\* Next acts on what it read: it fetches if it has to, writes the fields and
\* returns (middleware.go:560-604), and the lock is released.
GoNextReturn ==
    /\ UNCHANGED notConcVars /\ ConcFrame
    /\ \E g \in Goroutines :
          /\ gPc[g] = "read" /\ gOp[g] = "Next"
          /\ LET r == NextOf(gSnap[g]) IN
             /\ it' = r.it
             /\ delivered' = IF r.item # 0 THEN Append(delivered, r.item) ELSE delivered
             /\ pagesFetched' = pagesFetched \o r.fetched
          /\ Unlock(g)
          /\ UNCHANGED gOp

\* HasNext answers from what it read and writes nothing (middleware.go:611-627)
GoHasNextReturn ==
    /\ UNCHANGED notConcVars /\ ConcFrame
    /\ \E g \in Goroutines :
          /\ gPc[g] = "read" /\ gOp[g] = "HasNext"
          /\ Unlock(g)
          /\ UNCHANGED << gOp, delivered, pagesFetched, it >>

ConcInit ==
    /\ InitSharedIterator /\ InitGoroutines
    /\ IdleRequest /\ IdleBatch /\ IdleCallers /\ IdleChain /\ IdleClassifier
    /\ IdleDelay /\ IdleHex

NextConc ==
    GoNextLock \/ GoHasNextLock \/ GoRead \/ GoNextReturn \/ GoHasNextReturn

SpecConc == ConcInit /\ [][NextConc]_vars

(***************************************************************************)
(* Middleware composition: the loop of HTTPClient.Do (part_000:74-77) and *)
(* the same loop in Chain (middleware.go:151-159), and a request running  *)
(* through the composed handler.                                           *)
(***************************************************************************)
\* Bounds: middlewares registered, and attempts made with the handler.
MaxMiddlewares == 3
MaxAttempts == 2

\* A middleware either calls next and returns what it returned, as Logging-,
\* Header-, UserAgent- and MetricsMiddleware do ("pass"), or is a
\* MiddlewareFunc that returns without calling next ("short").
MiddlewareKinds == {"pass", "short"}

\* A handler is kept as the middlewares a request enters, outermost first
\* (each named by its place in the registered list); inside the last is the
\* base handler, doRequest.
BaseHandler == <<>>

\* m.Wrap(next): a handler running m around next
WrapHandler(m, next) == << m >> \o next

\* faulty variant: the loop starts one short and never wraps the last middleware
LoopStart_SkipsLast(n) == n - 2

\* i := len(middlewares) - 1
LoopStart(n) == n - 1

\* what a request leaves in the trace
TraceEvent(ev, m) == [ev |-> ev, at |-> m]

InitChain ==
    /\ middlewares \in SeqsUpTo(MiddlewareKinds, MaxMiddlewares)
    /\ composer \in {"Do", "Chain"}
    /\ chPc = "compose"
    /\ chI = LoopStart(Len(middlewares))
    /\ handler = BaseHandler
    /\ chDepth = 0
    /\ trace = <<>>
    /\ chAttempts = 0

\* One iteration of the loop, whoever runs it: middlewares[i] wraps the
\* handler built so far.
WrapStep ==
    /\ chPc = "compose"
    /\ chI >= 0
    /\ handler' = WrapHandler(chI + 1, handler)
    /\ chI' = chI - 1
    /\ UNCHANGED << middlewares, composer, chPc, chDepth, trace, chAttempts >>

\* part_000:74-77
DoWrap ==
    /\ UNCHANGED notChainVars
    /\ composer = "Do"
    /\ WrapStep

\* middleware.go:154-156
ChainWrap ==
    /\ UNCHANGED notChainVars
    /\ composer = "Chain"
    /\ WrapStep

\* The loop is over and the handler is called: by fn on each attempt
\* (part_000:84), or by the caller of Chain(...).Wrap(base).
CallHandler ==
    /\ UNCHANGED notChainVars
    /\ \/ chPc = "compose" /\ chI < 0
       \/ chPc = "returned" /\ chAttempts < MaxAttempts
    /\ chPc' = "down"
    /\ chDepth' = 0
    /\ trace' = <<>>
    /\ chAttempts' = chAttempts + 1
    /\ UNCHANGED << middlewares, composer, chI, handler >>

\* The request enters the next middleware of the handler, which calls next or
\* returns at once.
EnterMiddleware ==
    /\ UNCHANGED notChainVars
    /\ chPc = "down"
    /\ chDepth < Len(handler)
    /\ LET m == handler[chDepth + 1] IN
       /\ trace' = Append(trace, TraceEvent("request", m))
       /\ chDepth' = chDepth + 1
       /\ chPc' = IF middlewares[m] = "pass" THEN "down" ELSE "up"
    /\ UNCHANGED << middlewares, composer, chI, handler, chAttempts >>

\* part_000:121-124: the request reaches doRequest
BaseCall ==
    /\ UNCHANGED notChainVars
    /\ chPc = "down"
    /\ chDepth = Len(handler)
    /\ trace' = Append(trace, TraceEvent("base", 0))
    /\ chPc' = "up"
    /\ UNCHANGED << middlewares, composer, chI, handler, chDepth, chAttempts >>

\* The response or error is back in the innermost middleware not yet left,
\* which returns it.
LeaveMiddleware ==
    /\ UNCHANGED notChainVars
    /\ chPc = "up"
    /\ chDepth > 0
    /\ trace' = Append(trace, TraceEvent("response", handler[chDepth]))
    /\ chDepth' = chDepth - 1
    /\ UNCHANGED << middlewares, composer, chPc, chI, handler, chAttempts >>

\* The handler returns to its caller.
HandlerReturns ==
    /\ UNCHANGED notChainVars
    /\ chPc = "up"
    /\ chDepth = 0
    /\ chPc' = "returned"
    /\ UNCHANGED << middlewares, composer, chI, handler, chDepth, trace, chAttempts >>

ChainInit ==
    /\ InitChain
    /\ IdleRequest /\ IdleBatch /\ IdleCallers /\ IdleIterator
    /\ IdleGoroutines /\ IdleClassifier
    /\ IdleDelay /\ IdleHex

NextChain ==
    \/ DoWrap
    \/ ChainWrap
    \/ CallHandler
    \/ EnterMiddleware
    \/ BaseCall
    \/ LeaveMiddleware
    \/ HandlerReturns

SpecChain == ChainInit /\ [][NextChain]_vars

(***************************************************************************)
(* errors.IsRetryable applied to an error value.                           *)
(***************************************************************************)
\* Bound: links of the error given (as errors.Is and errors.As visit them).
MaxChain == 2

\* HTTP statuses of the HTTPErrors classified
ClsStatuses == {400, 404, 408, 409, 429, 499, 500, 503, 599, 600}

ClsLinks ==
    { NewHTTPError(s, TextBody)[1] : s \in ClsStatuses }
    \cup { ErrContextCanceled[1], ErrContextDeadline[1], ErrRateLimited[1],
           ConnFailure[1], JSONErr[1],
           NewJSONRPCError(ServerErrorEnd)[1],
           ErrLink("AlchemyError", "REQUEST_ERROR", 0),
           NewAPIError("RATE_LIMIT_EXCEEDED")[1], NewAPIError("INTERNAL_ERROR")[1],
           NewAPIError("INVALID_PARAMS")[1] }

InitClassifier ==
    /\ clsErr \in SeqsUpTo(ClsLinks, MaxChain)
    /\ clsPc = "ready"
    /\ clsVerdict = FALSE
    /\ clsRateLimit = FALSE

\* errors.go:93-116 and 141-162: both predicates applied to the error
Classify ==
    /\ UNCHANGED notClsVars
    /\ clsPc = "ready"
    /\ clsPc' = "done"
    /\ clsVerdict' = IsRetryable(clsErr)
    /\ clsRateLimit' = IsRateLimitError(clsErr)
    /\ UNCHANGED clsErr

ClsInit ==
    /\ InitClassifier
    /\ IdleRequest /\ IdleBatch /\ IdleCallers /\ IdleIterator
    /\ IdleGoroutines /\ IdleChain
    /\ IdleDelay /\ IdleHex

SpecClassify == ClsInit /\ [][Classify]_vars

(***************************************************************************)
(* Retrier.calculateDelay (eth.go:391-413).  Durations are whole           *)
(* nanoseconds; the jitter fraction and the random factor are kept in      *)
(* hundredths, the float64 delay in ten-thousandths of a nanosecond.       *)
(***************************************************************************)
\* Bounds: InitialDelay and MaxDelay in nanoseconds, and the attempts a delay
\* is computed for.
MaxDuration == 3
MaxDelayAttempts == 3

\* Retrier.Jitter, in hundredths: 0 (NewHTTPClient), 0.1 (DefaultRetrier), 0.5, 1
JitterFractions == {0, 10, 50, 100}
\* rand.Float64()*2 - 1, in hundredths: a value in [-1, 1)
RandFactors == {-100, -50, 0, 50, 99}

\* math.Pow(b, n) for a whole n >= 0
RECURSIVE Pow(_, _)
Pow(b, n) == IF n = 0 THEN 1 ELSE b * Pow(b, n - 1)

\* faulty variant: the cap is not applied
CapDelay_NoCap(d, max) == d

\* eth.go:396-399
CapDelay(d, max) == IF d > max THEN max ELSE d

\* time.Duration(delay) of a non-negative float64 kept in ten-thousandths: the
\* fraction is dropped
ToDuration(tt) == tt \div 10000

\* eth.go:392-413.  u is what rand.Float64()*2 - 1 gave, in hundredths.
calculateDelay(r, n, u) ==
    LET capped == CapDelay(r.InitialDelay * Pow(r.Multiplier, n), r.MaxDelay)
        jittered == IF r.Jitter > 0
                    THEN capped * 10000 + capped * r.Jitter * u
                    ELSE capped * 10000
    IN  ToDuration(IF jittered < 0 THEN 0 ELSE jittered)

\* part_000:49-54 and eth.go:331-339: the multiplier is 2.0 in both
Retriers ==
    [InitialDelay : 0..MaxDuration, MaxDelay : 0..MaxDuration,
     Multiplier : {2}, Jitter : JitterFractions]

InitDelay ==
    /\ retrier \in Retriers
    /\ delays = <<>>

\* eth.go:375: the delay for the next attempt
CalculateDelay ==
    /\ UNCHANGED notDelayVars
    /\ Len(delays) < MaxDelayAttempts
    /\ \E u \in RandFactors :
          /\ retrier.Jitter = 0 => u = 0
          /\ delays' = Append(delays,
                [rand |-> u, delay |-> calculateDelay(retrier, Len(delays), u)])
    /\ UNCHANGED retrier

DelayInit ==
    /\ InitDelay
    /\ IdleRequest /\ IdleBatch /\ IdleCallers /\ IdleIterator
    /\ IdleGoroutines /\ IdleChain /\ IdleClassifier /\ IdleHex

SpecDelay == DelayInit /\ [][CalculateDelay]_vars

(***************************************************************************)
(* The hex helpers (part_000:445-505) and AssetTransfersParams.SetMaxCount *)
(* (part_007:111-115).  A Go string is kept as the sequence of its         *)
(* characters, each by its code point: "0x" is << 48, 120 >>.              *)
(***************************************************************************)
\* Bound: the width of the unsigned integers encoded, in bits (uint64 scaled
\* down); values are 0 .. 2^UintBits - 1.
UintBits == 8

RECURSIVE TwoTo(_)
TwoTo(k) == IF k = 0 THEN 1 ELSE 2 * TwoTo(k - 1)
\* the largest value of the unsigned type
MaxUint == TwoTo(UintBits) - 1

\* "0x"
Prefix0x == << 48, 120 >>

\* faulty variant: the digits above 9 in upper case
HexDigitChar_Upper(d) == IF d < 10 THEN 48 + d ELSE 65 + (d - 10)

\* strconv.FormatUint's digit characters: '0'..'9', 'a'..'f'
HexDigitChar(d) == IF d < 10 THEN 48 + d ELSE 97 + (d - 10)

\* strconv.FormatUint(n, 16)
RECURSIVE FormatUint16(_)
FormatUint16(n) ==
    IF n < 16 THEN << HexDigitChar(n) >>
    ELSE Append(FormatUint16(n \div 16), HexDigitChar(n % 16))

\* part_000:490-496
EncodeUint64(n) ==
    IF n = 0 THEN << 48, 120, 48 >>
    ELSE Prefix0x \o FormatUint16(n)

\* part_000:445-447
Has0xPrefix(s) == Len(s) >= 2 /\ s[1] = 48 /\ (s[2] = 120 \/ s[2] = 88)

\* part_000:450-455
TrimPrefix(s) == IF Has0xPrefix(s) THEN SubSeq(s, 3, Len(s)) ELSE s

\* the value of a digit character as strconv.ParseUint reads it in base 16
\* (-1: not a digit)
HexDigitValue(c) ==
    IF c >= 48 /\ c <= 57 THEN c - 48
    ELSE IF c >= 97 /\ c <= 102 THEN c - 87
    ELSE IF c >= 65 /\ c <= 70 THEN c - 55
    ELSE -1

ParseRes(value, e) == [value |-> value, err |-> e]
ErrSyntax == << ErrLink("external", "strconv: invalid syntax", 0) >>
ErrRange  == << ErrLink("external", "strconv: value out of range", 0) >>

\* strconv.ParseUint(s, 16, bitSize): digit by digit from position k with the
\* value so far; a character that is no digit is a syntax error, a value
\* beyond the type's largest a range error (with that largest value).
RECURSIVE ParseUintFrom(_, _, _)
ParseUintFrom(s, k, acc) ==
    IF k > Len(s) THEN ParseRes(acc, Nil)
    ELSE IF HexDigitValue(s[k]) < 0 THEN ParseRes(0, ErrSyntax)
    ELSE IF acc * 16 + HexDigitValue(s[k]) > MaxUint THEN ParseRes(MaxUint, ErrRange)
    ELSE ParseUintFrom(s, k + 1, acc * 16 + HexDigitValue(s[k]))
ParseUint16(s) == IF s = <<>> THEN ParseRes(0, ErrSyntax) ELSE ParseUintFrom(s, 1, 0)

\* part_000:499-505
DecodeUint64(s) ==
    IF TrimPrefix(s) = <<>> THEN ParseRes(0, Nil)
    ELSE ParseUint16(TrimPrefix(s))

\* string(rune(count)): the one character with that code point, U+FFFD when
\* count is no valid code point
RuneString(count) ==
    IF count < 0 \/ count > 1114111 \/ (count >= 55296 /\ count <= 57343)
    THEN << 65533 >>
    ELSE << count >>

\* part_007:112-113
SetMaxCountOf(count) == Prefix0x \o RuneString(count)

InitHex ==
    /\ hexN \in 0..MaxUint
    /\ hexStr = <<>>
    /\ hexOut = ParseRes(0, Nil)
    /\ maxCount = <<>>
    /\ hexPc = "ready"

\* part_000:490-496 called with hexN
CallEncodeUint64 ==
    /\ UNCHANGED notHexVars
    /\ hexPc = "ready"
    /\ hexStr' = EncodeUint64(hexN)
    /\ hexPc' = "encoded"
    /\ UNCHANGED << hexN, hexOut, maxCount >>

\* part_000:499-505 called with what EncodeUint64 returned
CallDecodeUint64 ==
    /\ UNCHANGED notHexVars
    /\ hexPc = "encoded"
    /\ hexOut' = DecodeUint64(hexStr)
    /\ hexPc' = "decoded"
    /\ UNCHANGED << hexN, hexStr, maxCount >>

\* part_007:111-115 called with hexN
SetMaxCount ==
    /\ UNCHANGED notHexVars
    /\ hexPc = "ready"
    /\ maxCount' = SetMaxCountOf(hexN)
    /\ hexPc' = "set"
    /\ UNCHANGED << hexN, hexStr, hexOut >>

HexInit ==
    /\ InitHex
    /\ IdleRequest /\ IdleBatch /\ IdleCallers /\ IdleIterator
    /\ IdleGoroutines /\ IdleChain /\ IdleClassifier /\ IdleDelay

NextHex ==
    \/ CallEncodeUint64
    \/ CallDecodeUint64
    \/ SetMaxCount

SpecHex == HexInit /\ [][NextHex]_vars

(***************************************************************************)
(* Properties of the request executor.                                     *)
(***************************************************************************)
Done == pc = "done"
NetworkCalls == Len(outcomes)
IsResponse(o) == o.err = Nil
\* every attempt made was answered by the server with status s
AllAnswered(s) ==
    \A i \in 1..Len(outcomes) : IsResponse(outcomes[i]) /\ outcomes[i].resp.status = s
IsHTTPError(e, s) == Len(e) = 1 /\ e[1].kind = "HTTPError" /\ e[1].num = s

\* C1: with MaxRetries >= 0, a live context and every attempt answered 503,
\* Do ends after exactly MaxRetries+1 handler runs and returns (nil, HTTPError
\* 503); Post hands that error on.
C1_Exhausts503 ==
    (Done /\ MaxRetries >= 0 /\ ctx = "live" /\ AllAnswered(503))
        => /\ NetworkCalls = MaxRetries + 1
           /\ sleeps = MaxRetries
           /\ doRes.resp = NoResp
           /\ IsHTTPError(doRes.err, 503)
           /\ postRes.err = doRes.err

C1_Witness ==
    /\ Done /\ MaxRetries = 2 /\ ctx = "live" /\ AllAnswered(503)
    /\ NetworkCalls = 3
    /\ IsHTTPError(doRes.err, 503)

\* a status that is not 2xx, not 429 and below 500
TerminalFailureStatus(s) == ~(s >= 200 /\ s < 300) /\ s # 429 /\ s < 500

\* C2: when the first attempt is answered with a status that is not 2xx, not
\* 429 and below 500, there is exactly one handler run and no backoff sleep,
\* Do returns that very response with a nil error, and Post (the body having
\* been read) returns an HTTPError with that status and body.
C2_TerminalStatusOnce ==
    (Done /\ NetworkCalls >= 1 /\ IsResponse(outcomes[1])
          /\ TerminalFailureStatus(outcomes[1].resp.status))
        => /\ NetworkCalls = 1
           /\ sleeps = 0
           /\ doRes = DoRes(outcomes[1].resp, Nil)
           /\ outcomes[1].resp.readOk =>
                /\ postRes.body = NoBody
                /\ postRes.err = NewHTTPError(outcomes[1].resp.status,
                                              outcomes[1].resp.body)

C2_Witness ==
    /\ Done /\ MaxRetries = 2 /\ NetworkCalls = 1
    /\ outcomes[1] = Outcome(Response(404, TextBody, TRUE), Nil)
    /\ doRes.resp.status = 404
    /\ IsHTTPError(postRes.err, 404)

\* C3: when the context becomes done during a backoff sleep, no further
\* handler run is made and HTTPClient.Do returns the cancellation error
\* (ErrContextCanceled, or ErrContextDeadline for a deadline).
C3_CancelDuringSleep ==
    (Done /\ cancelledAt.at = "sleep")
        => /\ NetworkCalls = cancelledAt.calls
           /\ doRes.err = CtxErr(ctx)

\* What the code does there: the retrier returns the cancellation error and
\* makes no further attempt, but Do returns its own lastErr in its place.
C3_CodeBehaviour ==
    (Done /\ cancelledAt.at = "sleep")
        => /\ NetworkCalls = cancelledAt.calls
           /\ retErr = FnRet(FALSE, CtxErr(ctx))
           /\ doRes.err = lastErr
           /\ doRes.err # CtxErr(ctx)

\* C4: at the head of every loop iteration Retrier.Do checks the context: when
\* it is done, fn is not called for that iteration and Retrier.Do returns
\* ErrContextCanceled for a cancelled context, ErrContextDeadline otherwise; a
\* call made with a done context makes no handler run at all.
C4_LoopHeadStep ==
    (pc = "loop" /\ RetryLoopCond(attempt) /\ ctx # "live")
        => /\ pc' = "done"
           /\ outcomes' = outcomes
           /\ retErr' = FnRet(FALSE, IF ctx = "canceled" THEN ErrContextCanceled
                                     ELSE ErrContextDeadline)
C4_NoCallWhenDone ==
    (cancelledAt.at = "before") => (NetworkCalls = 0 /\ pc # "fn")
C4_CtxCheckedBeforeAttempt ==
    [][C4_LoopHeadStep]_vars /\ []C4_NoCallWhenDone

C4_Witness ==
    /\ Done /\ attempt = 1 /\ cancelledAt.at = "loop" /\ NetworkCalls = 1
    /\ retErr = FnRet(FALSE, ErrContextDeadline)

\* C5: an answer carrying error.code = -32602 is sent once and its protocol
\* error returned; an answer carrying error.code = -32000 is attempted again
\* while attempts remain.
RPCErrorAnswer(o, code) ==
    /\ IsResponse(o) /\ o.resp.status = 200 /\ o.resp.readOk
    /\ o.resp.body.valid /\ o.resp.body.code = code
C5_RPCErrorRetry ==
    (Done /\ NetworkCalls >= 1)
        => /\ RPCErrorAnswer(outcomes[1], InvalidParams)
                => (NetworkCalls = 1 /\ callRes.err = NewJSONRPCError(InvalidParams))
           /\ (RPCErrorAnswer(outcomes[1], ServerErrorEnd)
                    /\ MaxRetries >= 1 /\ ctx = "live")
                => NetworkCalls >= 2

\* What the code does: no protocol error is ever attempted again; Call returns it.
C5_CodeBehaviour ==
    (Done /\ NetworkCalls >= 1)
        => \A code \in {InvalidParams, ServerErrorEnd} :
              RPCErrorAnswer(outcomes[1], code)
                => (NetworkCalls = 1 /\ sleeps = 0
                    /\ callRes.err = NewJSONRPCError(code))

\* C6: an attempt that fails with a connection failure of the transport (no
\* HTTP status, not a cancellation) is attempted again while attempts remain
\* and the context is live.
C6_ConnFailureRetried ==
    (Done /\ NetworkCalls >= 1 /\ outcomes[1].err = ConnFailure
          /\ MaxRetries >= 1 /\ ctx = "live")
        => NetworkCalls >= 2

\* What the code does: the connection failure ends the call at once.
C6_CodeBehaviour ==
    (Done /\ NetworkCalls >= 1 /\ outcomes[NetworkCalls].err = ConnFailure)
        => /\ sleeps = NetworkCalls - 1
           /\ retErr = FnRet(TRUE, ConnFailure)
           /\ doRes = DoRes(NoResp, ConnFailure)

(***************************************************************************)
(* Properties of BatchCall.                                                *)
(***************************************************************************)
\* the response entries that carry id
EntriesWithID(id) == { k \in 1..Len(bAnswer.responses) : bAnswer.responses[k].id = id }

\* C7: for a batch of N >= 1 calls whose POST is answered with a JSON array,
\* call i is sent with id i+1, the result list has N slots, the top-level
\* error is nil, and slot i follows from the entry with id i+1 alone, wherever
\* it stands in the array: none gives the missing-response error, an error
\* object gives that protocol error, a result is decoded into the call's
\* target, a failed decode being an error of that slot.
C7_BatchCorrelation ==
    (bPhase = "done" /\ Len(calls) >= 1 /\ bPosts = 1
        /\ bAnswer.err = Nil /\ bAnswer.isArray)
    => /\ Len(bResults) = Len(calls)
       /\ Len(bRequests) = Len(calls)
       /\ bErr = Nil
       /\ \A i \in 0..(Len(calls) - 1) :
            /\ At(bRequests, i).id = i + 1
            /\ EntriesWithID(i + 1) = {}
                  => At(bResults, i) = BatchResult(MissingResponse(i), FALSE, "unset")
            /\ \A k \in EntriesWithID(i + 1) :
                  LET r == bAnswer.responses[k] IN
                  EntriesWithID(i + 1) = {k} =>
                    /\ r.code # 0
                          => At(bResults, i) =
                                BatchResult(NewJSONRPCError(r.code), FALSE, "unset")
                    /\ (r.code = 0 /\ r.result = "num" /\ At(calls, i) = "int")
                          => At(bResults, i) = BatchResult(Nil, TRUE, "num")
                    /\ (r.code = 0 /\ r.result = "str" /\ At(calls, i) = "int")
                          => /\ At(bResults, i).err = Wrap(JSONErr, "UNMARSHAL_ERROR")
                             /\ ~At(bResults, i).result
                    /\ (r.code = 0 /\ (r.result = "none" \/ At(calls, i) = "nil"))
                          => At(bResults, i) = BatchResult(Nil, FALSE, "unset")

\* calls [A, B, C], the array holding the answers for ids 3 and 1 in that order
C7_Witness ==
    /\ bPhase = "done"
    /\ calls = << "int", "int", "int" >>
    /\ bAnswer = BatchAnswer(Nil, TRUE, << BatchCallResponse(3, 0, "num"),
                                            BatchCallResponse(1, 0, "num") >>)
    /\ bResults = << BatchResult(Nil, TRUE, "num"),
                     BatchResult(MissingResponse(1), FALSE, "unset"),
                     BatchResult(Nil, TRUE, "num") >>

\* C8: BatchCall with no calls returns an empty result list and a nil error;
\* no request is built, no POST is issued, nothing else changes.
C8_EmptyBatch ==
    (bPhase = "done" /\ Len(calls) = 0)
    => /\ bResults = <<>>
       /\ bErr = Nil
       /\ bRequests = <<>>
       /\ bPosts = 0
       /\ bAnswer = NoAnswer
       /\ IdleRequest

C8_Witness == bPhase = "done" /\ calls = <<>> /\ bPosts = 0 /\ bResults = <<>>

(***************************************************************************)
(* Properties of the request-id counter.                                   *)
(***************************************************************************)
\* C9: under every interleaving of Call and CallRaw, k calls of NextRequestID
\* advance the counter by exactly k (no lost update), the ids handed out are
\* strictly increasing in the order of the increments, hence pairwise
\* distinct, and no two requests in flight carry the same id.
RECURSIVE CallsStarted(_)
CallsStarted(c) == IF c = 0 THEN 0 ELSE callsMade[c] + CallsStarted(c - 1)
C9_DistinctIDs ==
    /\ requestIDCounter = CallsStarted(NumCallers)
    /\ Len(issued) = CallsStarted(NumCallers)
    /\ \A i, j \in 1..Len(issued) : i < j => issued[i] < issued[j]
    /\ \A c, d \in Callers :
          (c # d /\ callerPc[c] = "posting" /\ callerPc[d] = "posting")
              => callerReq[c].id # callerReq[d].id

\* every caller has a request in flight, after three increments, all ids different
C9_Witness ==
    /\ \A c \in Callers : callerPc[c] = "posting"
    /\ Len(issued) >= 3
    /\ Cardinality({ callerReq[c].id : c \in Callers }) = NumCallers

(***************************************************************************)
(* Properties of the pagination iterator.                                  *)
(***************************************************************************)
\* the page the first fetch asks for
FirstPage == ServedPage(startKey)

\* pages FirstPage..srvLen are all non-empty and every fetch of them succeeds;
\* by construction each but the last carries a cursor and the last none
NonEmptyChain ==
    /\ FirstPage <= srvLen
    /\ \A c \in FirstPage..srvLen : srvItems[c] >= 1 /\ c # failAt

\* the transfers of pages c..srvLen, page by page and in page order
RECURSIVE ChainItems(_)
ChainItems(c) ==
    IF c > srvLen THEN <<>>
    ELSE [j \in 1..srvItems[c] |-> Item(c, j)] \o ChainItems(c + 1)

\* C10: over a chain P1..Pk of non-empty pages, Collect on a freshly
\* constructed iterator returns the pages' items in page order and in-page
\* order with a nil error, and issues exactly k fetches: the first with the
\* construction-time page key, fetch i+1 with the cursor page i returned.
C10_CollectChain ==
    (lastOp.name = "Collect" /\ lastOp.fresh /\ NonEmptyChain)
    => /\ lastOp.err = Nil
       /\ lastOp.items = ChainItems(FirstPage)
       /\ Len(lastOp.fetched) = srvLen - FirstPage + 1
       /\ lastOp.fetched[1] = startKey
       /\ \A k \in 2..Len(lastOp.fetched) : lastOp.fetched[k] = FirstPage + k - 1

\* P1 = [a, b] with a cursor, P2 = [c] with none: [a, b, c] and two fetches
C10_Witness ==
    /\ lastOp.name = "Collect" /\ lastOp.fresh
    /\ startKey = EmptyKey /\ srvLen = 2 /\ srvItems[1] = 2 /\ srvItems[2] = 1
    /\ failAt = 0
    /\ lastOp.items = << Item(1, 1), Item(1, 2), Item(2, 1) >>
    /\ lastOp.fetched = << EmptyKey, 2 >>

\* C11: constructing the iterator fetches nothing, and the first call of
\* Next or of HasNext, whichever is made first, fetches the first page.
C11_Step ==
    /\ fresh => lastOp = NoOp
    /\ (fresh /\ lastOp'.name \in {"Next", "HasNext"})
          => /\ lastOp'.fetched # <<>>
             /\ lastOp'.fetched[1] = startKey
C11_LazyFirstFetch == [][C11_Step]_vars

\* What the code does: a first Next fetches the first page; HasNext never
\* fetches, and on an iterator without a page it answers true.
C11_CodeStep ==
    /\ fresh => (lastOp = NoOp /\ it = NewIterator(startKey))
    /\ (fresh /\ lastOp'.name = "Next")
          => (lastOp'.fetched # <<>> /\ lastOp'.fetched[1] = startKey)
    /\ lastOp'.name = "HasNext" => (lastOp'.fetched = <<>> /\ it' = it)
    /\ (fresh /\ lastOp'.name = "HasNext") => lastOp'.bool
C11_CodeBehaviour == [][C11_CodeStep]_vars

\* C12: once a fetch has failed inside Next, and until Reset, every Next,
\* Collect and CollectN returns the stored error, HasNext returns false,
\* Error returns the stored error, and nothing is fetched.
C12_Step ==
    (it.err # Nil /\ lastOp'.name # "Reset")
        => /\ it'.err = it.err
           /\ lastOp'.fetched = <<>>
           /\ lastOp'.name \in {"Next", "Collect", "CollectN", "Error"}
                 => lastOp'.err = it.err
           /\ lastOp'.name = "HasNext" => ~lastOp'.bool
C12_StickyError == [][C12_Step]_vars

\* What the code does: as claimed for Next, Collect, HasNext and Error and for
\* CollectN(n) with n >= 1; CollectN(0) never calls Next and returns an empty
\* list with a nil error, and a negative n panics.
C12_CodeStep ==
    (it.err # Nil /\ lastOp'.name # "Reset")
        => /\ it'.err = it.err
           /\ lastOp'.fetched = <<>>
           /\ lastOp'.name \in {"Next", "Collect", "Error"} => lastOp'.err = it.err
           /\ lastOp'.name = "HasNext" => ~lastOp'.bool
           /\ lastOp'.name = "CollectN"
                 => lastOp'.err = (IF lastOp'.item >= 1 THEN it.err
                                   ELSE IF lastOp'.item = 0 THEN Nil
                                   ELSE MakeSlicePanic)
C12_CodeBehaviour == [][C12_CodeStep]_vars

\* C13: an iterator that started at page 1, delivered items of it and then
\* failed fetching a later page: Reset clears the stored error and the page
\* key, and the Next that follows fetches with the empty page key and returns
\* the first item of page 1.
C13_Step ==
    /\ (it.err # Nil /\ lastOp'.name = "Reset")
          => /\ it'.err = Nil
             /\ it'.pageKey = EmptyKey
             /\ it'.current = NoPage
    /\ (lastOp.name = "Reset" /\ lastOp.err # Nil /\ startKey = EmptyKey
            /\ failAt >= 2 /\ srvItems[1] >= 1 /\ lastOp'.name = "Next")
          => /\ lastOp'.fetched = << EmptyKey >>
             /\ lastOp'.item = Item(1, 1)
             /\ lastOp'.err = Nil
C13_ResetAfterError == [][C13_Step]_vars

\* two items of page 1 consumed, the fetch of page 2 failed, then Reset
C13_Witness ==
    /\ lastOp.name = "Reset" /\ lastOp.err = FetchErr
    /\ startKey = EmptyKey /\ failAt = 2 /\ srvItems[1] = 2
    /\ it = NewIterator(EmptyKey)

\* C14: after Reset, whenever it is called, the iterator's page, index,
\* exhausted flag, error and page key are those it had right after
\* construction, a non-empty starting page key included.
C14_ResetRestoresConstruction ==
    (lastOp.name = "Reset") => it = NewIterator(startKey)

\* What the code does: everything but the page key is restored; the page key
\* becomes the empty string whatever the starting key was.
C14_CodeBehaviour ==
    (lastOp.name = "Reset") => it = NewIterator(EmptyKey)

\* the last page key of a sequence of fetches
LastFetched(f) == f[Len(f)]
\* The step is a Next whose last fetch followed the cursor of the page in hand.
FollowedCursor ==
    /\ lastOp'.name = "Next"
    /\ lastOp'.fetched # <<>>
    /\ (~it.current.isNil \/ Len(lastOp'.fetched) = 2)

\* C15: when Next follows a cursor and the page fetched has no items, Next
\* returns (nil, nil), the iterator is exhausted and its error stays nil; an
\* exhausted iterator fetches nothing more, also when that empty page carries
\* a cursor.
C15_Step ==
    /\ (FollowedCursor
          /\ GetAssetTransfers(LastFetched(lastOp'.fetched)).err = Nil
          /\ Len(GetAssetTransfers(LastFetched(lastOp'.fetched)).page.transfers) = 0)
          => /\ lastOp'.item = 0
             /\ lastOp'.err = Nil
             /\ it'.done
             /\ it'.err = Nil
    /\ (it.done /\ lastOp'.name # "Reset")
          => /\ lastOp'.fetched = <<>>
             /\ it'.done
             /\ it'.err = Nil
C15_EmptyPageEnds == [][C15_Step]_vars

\* page 1 consumed, its cursor followed to page 2, which is empty and carries
\* a cursor itself: end of data
C15_Witness ==
    /\ lastOp.name = "Next" /\ lastOp.fetched = << 2 >>
    /\ startKey = EmptyKey /\ srvItems[1] >= 1 /\ srvItems[2] = 0 /\ srvLen = 3
    /\ it.current.pageKey = 3
    /\ lastOp.item = 0 /\ lastOp.err = Nil /\ it.done /\ it.err = Nil

\* C17: HasNext answers true exactly when there is more to iterate: after a
\* true answer the Next that follows at once returns an item or a fetch
\* error, never (nil, nil); after a false answer it returns no item.
C17_Step ==
    (lastOp.name = "HasNext" /\ lastOp'.name = "Next")
        => /\ lastOp.bool => (lastOp'.item # 0 \/ lastOp'.err # Nil)
           /\ ~lastOp.bool => lastOp'.item = 0
C17_HasNextExact == [][C17_Step]_vars

\* What the code does: a false answer is always right; a true answer is given
\* without looking at the page to come, which may hold nothing.
C17_CodeStep ==
    (lastOp.name = "HasNext" /\ lastOp'.name = "Next")
        => /\ ~lastOp.bool => lastOp'.item = 0
           /\ (lastOp.bool /\ lastOp'.item = 0 /\ lastOp'.err = Nil)
                 => lastOp'.fetched # <<>>
C17_CodeBehaviour == [][C17_CodeStep]_vars

\* The items of pages c, c+1, ... reached by following cursors: an empty page
\* ends the chain.
RECURSIVE FollowFrom(_)
FollowFrom(c) ==
    IF c > srvLen \/ srvItems[c] = 0 THEN <<>>
    ELSE [j \in 1..srvItems[c] |-> Item(c, j)] \o FollowFrom(c + 1)

\* the items of page c as the endpoint serves them
PageItems(c) == [j \in 1..(IF c <= srvLen THEN srvItems[c] ELSE 0) |-> Item(c, j)]

\* The items an iterator with fields i has yet to deliver when no fetch fails.
RemainingItemsOf(i) ==
    IF i.err # Nil \/ i.done THEN <<>>
    ELSE IF i.current.isNil
    THEN PageItems(ServedPage(i.pageKey))
            \o (IF ServedPage(i.pageKey) < srvLen
                THEN FollowFrom(ServedPage(i.pageKey) + 1) ELSE <<>>)
    ELSE SubSeq(i.current.transfers, i.index + 1, Len(i.current.transfers))
            \o (IF i.current.pageKey # EmptyKey
                THEN FollowFrom(i.current.pageKey) ELSE <<>>)

Min(a, b) == IF a <= b THEN a ELSE b
\* the page an item comes from
PageOfItem(x) == x \div 10

\* C18: CollectN(n), n >= 0, meeting no fetch error on an iterator with r
\* items remaining, returns the next min(n, r) items in order and consumes
\* exactly those: what remains afterwards is the rest, and a Next that follows
\* returns the item right after them; when n <= r nothing is fetched beyond
\* the page of the n-th item returned (nothing at all when n = 0).
C18_Step ==
    (lastOp'.name = "CollectN" /\ lastOp'.item >= 0 /\ lastOp'.err = Nil)
        => LET n == lastOp'.item
               R == RemainingItemsOf(it)
               m == Min(n, Len(R))
               rest == SubSeq(R, m + 1, Len(R))
           IN  /\ lastOp'.items = SubSeq(R, 1, m)
               /\ RemainingItemsOf(it') = rest
               /\ NextOf(it').err = Nil
                     => NextOf(it').item = (IF rest = <<>> THEN 0 ELSE rest[1])
               /\ n = 0 => lastOp'.fetched = <<>>
               /\ (1 <= n /\ n <= Len(R))
                     => \A k \in 1..Len(lastOp'.fetched) :
                           ServedPage(lastOp'.fetched[k]) <= PageOfItem(R[n])
C18_CollectN == [][C18_Step]_vars

\* CollectN(2) on a fresh iterator over P1 = [a, b], P2 = [c]: [a, b], one fetch
C18_Witness ==
    /\ lastOp.name = "CollectN" /\ lastOp.item = 2 /\ lastOp.fresh
    /\ startKey = EmptyKey /\ srvLen = 2 /\ srvItems[1] = 2 /\ srvItems[2] = 1
    /\ failAt = 0
    /\ lastOp.items = << Item(1, 1), Item(1, 2) >>
    /\ lastOp.fetched = << EmptyKey >>
    /\ RemainingItemsOf(it) = << Item(2, 1) >>

(***************************************************************************)
(* Properties of concurrent calls on one iterator.                         *)
(***************************************************************************)
IsPrefix(a, b) == Len(a) <= Len(b) /\ a = SubSeq(b, 1, Len(a))
\* the items of the page chain, as a fresh iterator has them yet to deliver
WholeChain == RemainingItemsOf(NewIterator(startKey))

\* C16: under every interleaving of Next and HasNext calls of several
\* goroutines on one iterator the calls are serialized by it.mu: only the
\* holder of the lock is inside a method; the items returned by the Next
\* calls, in the order of the returns, are a prefix of the page chain (none
\* twice, none skipped) and the whole chain once the iterator is exhausted
\* without error; the index stays within 0..len(current page); no page is
\* fetched twice.
C16_Serialized ==
    /\ \A g \in Goroutines : gPc[g] # "idle" => mu = g
    /\ IsPrefix(delivered, WholeChain)
    /\ (it.done /\ it.err = Nil) => delivered = WholeChain
    /\ it.index >= 0 /\ it.index <= Len(it.current.transfers)
    /\ \A j, k \in 1..Len(pagesFetched) :
          j # k => ServedPage(pagesFetched[j]) # ServedPage(pagesFetched[k])

\* two pages of two and one items all delivered, both goroutines having called
\* Next, one of them inside Next again
C16_Witness ==
    /\ srvLen = 2 /\ srvItems[1] = 2 /\ srvItems[2] = 1 /\ failAt = 0
    /\ delivered = << Item(1, 1), Item(1, 2), Item(2, 1) >>
    /\ pagesFetched = << EmptyKey, 2 >>
    /\ gOp[1] = "Next" /\ gOp[2] = "Next"
    /\ gPc[1] = "read" /\ gPc[2] = "idle"
    /\ it.index = 1 /\ ~it.done

(***************************************************************************)
(* Properties of the middleware composition.                               *)
(***************************************************************************)
\* the first middleware of the list that does not call next (none: one past
\* the end of the list)
FirstShort ==
    IF \E k \in 1..Len(middlewares) : middlewares[k] = "short"
    THEN CHOOSE k \in 1..Len(middlewares) :
            /\ middlewares[k] = "short"
            /\ \A j \in 1..(k - 1) : middlewares[j] = "pass"
    ELSE Len(middlewares) + 1
\* how many middlewares, in registration order, the request gets into
Reached == IF FirstShort <= Len(middlewares) THEN FirstShort ELSE Len(middlewares)

\* m1, ..., mj see the request in registration order; the base handler is
\* reached when every middleware calls next; the response or error goes back
\* through mj, ..., m1.
ExpectedTrace ==
    [k \in 1..Reached |-> TraceEvent("request", k)]
    \o (IF FirstShort > Len(middlewares) THEN << TraceEvent("base", 0) >> ELSE <<>>)
    \o [k \in 1..Reached |-> TraceEvent("response", Reached + 1 - k)]

\* C19: for a list m1..mn composed by HTTPClient.Do or by Chain the composed
\* handler has m1 outermost and mn innermost, and on every attempt the request
\* passes m1, m2, ..., mn in that order before the base handler and the
\* response or error passes back through mn, ..., m1 (up to the first
\* middleware that does not call next, if there is one).
C19_RegistrationOrder ==
    /\ (chPc \notin {"idle", "compose"})
          => handler = [k \in 1..Len(middlewares) |-> k]
    /\ (chPc = "returned") => trace = ExpectedTrace

\* three middlewares composed by Chain, second attempt: in 1, 2, 3, base, out 3, 2, 1
C19_Witness ==
    /\ chPc = "returned" /\ composer = "Chain" /\ chAttempts = 2
    /\ middlewares = << "pass", "pass", "pass" >>
    /\ trace = << TraceEvent("request", 1), TraceEvent("request", 2),
                  TraceEvent("request", 3), TraceEvent("base", 0),
                  TraceEvent("response", 3), TraceEvent("response", 2),
                  TraceEvent("response", 1) >>

(***************************************************************************)
(* Properties of the error classifier.                                     *)
(***************************************************************************)
\* statuses the rules call retryable
RetryableStatus(s) == s = 429 \/ s = 408 \/ (s >= 500 /\ s <= 599)
IsHTTPLink(l) == l.kind = "HTTPError"

\* The verdict by the ordered rules: nil is not retryable; with an HTTPError
\* in the chain, its status decides; otherwise the rate-limit sentinel makes
\* it retryable; anything else, cancellation and deadline included, is not.
RuleVerdict(e) ==
    IF e = Nil THEN FALSE
    ELSE IF \E i \in 1..Len(e) : IsHTTPLink(e[i])
    THEN \E i \in 1..Len(e) :
            /\ IsHTTPLink(e[i])
            /\ \A j \in 1..(i - 1) : ~IsHTTPLink(e[j])
            /\ RetryableStatus(e[i].num)
    ELSE \E i \in 1..Len(e) : e[i] = ErrRateLimited[1]

\* C20: errors.IsRetryable returns the verdict of the ordered rules.
C20_IsRetryableRules ==
    (clsPc = "done") => clsVerdict = RuleVerdict(clsErr)

\* an HTTPError 408 under a wrapping error: retryable
C20_Witness ==
    /\ clsPc = "done"
    /\ clsErr = Wrap(NewHTTPError(408, TextBody), "REQUEST_ERROR")
    /\ clsVerdict

(***************************************************************************)
(* Properties of the backoff delay.                                        *)
(***************************************************************************)
\* min(InitialDelay * Multiplier^n, MaxDelay)
BaseDelay(n) ==
    Min(retrier.InitialDelay * Pow(retrier.Multiplier, n), retrier.MaxDelay)
Abs(x) == IF x < 0 THEN 0 - x ELSE x
\* never negative, never above MaxDelay * (1 + Jitter)
DelayInRange(d) ==
    d >= 0 /\ d * 100 <= retrier.MaxDelay * (100 + retrier.Jitter)
\* with zero jitter the delays do not decrease from one attempt to the next
ZeroJitterMonotone ==
    (retrier.Jitter = 0)
        => \A k \in 1..(Len(delays) - 1) : delays[k].delay <= delays[k + 1].delay

\* C21: for every attempt n >= 0 and jitter fraction in [0,1] the delay
\* calculateDelay(n) returns differs from min(InitialDelay * Multiplier^n,
\* MaxDelay) by at most that delay times the jitter fraction, is never
\* negative and never above MaxDelay * (1 + Jitter); with zero jitter the
\* delay is non-decreasing in n.
C21_DelayWithinJitter ==
    /\ \A k \in 1..Len(delays) :
          /\ Abs(delays[k].delay - BaseDelay(k - 1)) * 100
                <= BaseDelay(k - 1) * retrier.Jitter
          /\ DelayInRange(delays[k].delay)
    /\ ZeroJitterMonotone

\* C21, amended: the perturbed delay is cut to whole nanoseconds when it is
\* converted to a time.Duration, so the returned delay lies above
\* delay * (1 - Jitter) - 1ns and at most at delay * (1 + Jitter); the range
\* and the monotonicity are as claimed.
C21_DelayTruncated ==
    /\ \A k \in 1..Len(delays) :
          /\ (delays[k].delay + 1) * 100 > BaseDelay(k - 1) * (100 - retrier.Jitter)
          /\ delays[k].delay * 100 <= BaseDelay(k - 1) * (100 + retrier.Jitter)
          /\ DelayInRange(delays[k].delay)
    /\ ZeroJitterMonotone

\* 3ns capped at 3ns with jitter 0.5: the random factor -1 gives 1.5ns,
\* returned as 1ns; the next attempt, factor 0.99, gives 4.485ns, returned as 4ns
C21_Witness ==
    /\ retrier = [InitialDelay |-> 3, MaxDelay |-> 3, Multiplier |-> 2, Jitter |-> 50]
    /\ Len(delays) = 2
    /\ delays[1] = [rand |-> -100, delay |-> 1]
    /\ delays[2] = [rand |-> 99, delay |-> 4]

(***************************************************************************)
(* Properties of JSONRPCClient.Call's outcome.                             *)
(***************************************************************************)
\* a decode error: an AlchemyError with code UNMARSHAL_ERROR around the JSON
\* decoder's error
IsDecodeError(e) ==
    /\ Len(e) = 2
    /\ e[1].kind = "AlchemyError" /\ e[1].name = "UNMARSHAL_ERROR"
    /\ e[2] = JSONErr[1]
IsProtocolError(e, code) == Len(e) = 1 /\ e[1].kind = "JSONRPCError" /\ e[1].num = code
\* Post returned a body that is the JSON of an envelope
GotEnvelope == postRes.err = Nil /\ postRes.body.valid
\* a result to decode: a target was given and the envelope carries a result
HasResultToDecode == target # "nil" /\ postRes.body.result # "none"

\* C22: Call classifies its outcome in this order: a failure of Post is
\* returned as that very error; a body that is not an envelope gives a decode
\* error (UNMARSHAL_ERROR); an envelope with an error object gives that
\* JSONRPCError, a result beside it or not, and the target stays untouched;
\* otherwise the result is decoded into the target, a failure of that being a
\* decode error and no protocol error; nil is returned only when none of
\* these failures occurred.
C22_CallClassification ==
    Done =>
      /\ (postRes.err # Nil) => callRes = CallRes(postRes.err, "unset")
      /\ (postRes.err = Nil /\ ~postRes.body.valid)
            => (IsDecodeError(callRes.err) /\ callRes.out = "unset")
      /\ (GotEnvelope /\ postRes.body.code # 0)
            => /\ IsProtocolError(callRes.err, postRes.body.code)
               /\ callRes.out = "unset"
      /\ (GotEnvelope /\ postRes.body.code = 0 /\ HasResultToDecode)
            => /\ (postRes.body.result = "num") => callRes = CallRes(Nil, "num")
               /\ (postRes.body.result = "str")
                     => /\ IsDecodeError(callRes.err)
                        /\ ~(\E i \in 1..Len(callRes.err) :
                                callRes.err[i].kind = "JSONRPCError")
      /\ (GotEnvelope /\ postRes.body.code = 0 /\ ~HasResultToDecode)
            => callRes = CallRes(Nil, "unset")
      /\ (callRes.err = Nil)
            => /\ GotEnvelope /\ postRes.body.code = 0
               /\ HasResultToDecode => postRes.body.result = "num"

\* an envelope with error code -32000 and a numeric result beside it, a target
\* given: the protocol error is returned and the target is untouched
C22_Witness ==
    /\ Done /\ target = "int" /\ NetworkCalls = 1
    /\ postRes = PostRes(Body(TRUE, ServerErrorEnd, "num"), Nil)
    /\ callRes = CallRes(NewJSONRPCError(ServerErrorEnd), "unset")

(***************************************************************************)
(* Properties of the hex helpers.                                          *)
(***************************************************************************)
\* the characters '0'..'9' and 'a'..'f'
LowerHexChars == (48..57) \cup (97..102)
\* the number a string of lower-case hex digits writes
RECURSIVE HexValue(_)
HexValue(ds) ==
    IF ds = <<>> THEN 0
    ELSE 16 * HexValue(SubSeq(ds, 1, Len(ds) - 1))
         + (IF ds[Len(ds)] <= 57 THEN ds[Len(ds)] - 48 ELSE ds[Len(ds)] - 87)
\* s is the 0x-prefixed lower-case hexadecimal writing of n without leading zeros
IsCanonicalHex(s, n) ==
    /\ Len(s) >= 3 /\ s[1] = 48 /\ s[2] = 120
    /\ \A k \in 3..Len(s) : s[k] \in LowerHexChars
    /\ (s[3] = 48) => Len(s) = 3
    /\ HexValue(SubSeq(s, 3, Len(s))) = n

\* C23: EncodeUint64(0) is "0x0", DecodeUint64("0x0") is 0, and for every value
\* n of the unsigned type EncodeUint64(n) is the 0x-prefixed lower-case
\* hexadecimal writing of n without leading zeros and DecodeUint64 of it
\* returns n and no error.
C23_HexRoundTrip ==
    /\ (hexPc \in {"encoded", "decoded"})
          => /\ IsCanonicalHex(hexStr, hexN)
             /\ (hexN = 0) => hexStr = << 48, 120, 48 >>
    /\ (hexPc = "decoded")
          => /\ hexOut = ParseRes(hexN, Nil)
             /\ (hexStr = << 48, 120, 48 >>) => hexOut.value = 0

\* 255 is encoded as "0xff", which is decoded as 255
C23_Witness ==
    /\ hexPc = "decoded" /\ hexN = 255
    /\ hexStr = << 48, 120, 102, 102 >>
    /\ hexOut = ParseRes(255, Nil)

\* C30: SetMaxCount(n), n >= 0, sets MaxCount to the 0x-prefixed lower-case
\* hexadecimal writing of n without leading zeros (10 gives "0xa"), the string
\* EncodeUint64(n) returns.
C30_SetMaxCountHex ==
    (hexPc = "set")
        => /\ IsCanonicalHex(maxCount, hexN)
           /\ maxCount = EncodeUint64(hexN)

\* What the code does: "0x" followed by the one character whose code point is
\* n (10 gives "0x" and a line feed).
C30_CodeBehaviour ==
    (hexPc = "set") => maxCount = << 48, 120, hexN >>

\* C29: every error IsRateLimitError reports (an HTTPError with status 429,
\* an error matching ErrRateLimited, an APIError of type RATE_LIMIT_EXCEEDED)
\* is reported retryable by IsRetryable.
C29_RateLimitRetryable ==
    (clsPc = "done" /\ clsRateLimit) => clsVerdict

\* What the code does: IsRetryable knows HTTPErrors and the sentinel only.  A
\* rate-limit error is retryable when its first HTTPError has a retryable
\* status or, with no HTTPError in it, when it matches ErrRateLimited; an
\* APIError of type RATE_LIMIT_EXCEEDED alone is not, though
\* APIError.IsRetryable says it is.
C29_CodeBehaviour ==
    /\ (clsPc = "done" /\ clsRateLimit /\ ~clsVerdict)
          => \/ /\ HasLink(clsErr, "APIError")
                /\ APIErrorIsRetryable(FirstLink(clsErr, "APIError").name)
                /\ ~HasLink(clsErr, "HTTPError")
                /\ ~ErrorsIs(clsErr, ErrRateLimited)
             \/ /\ HasLink(clsErr, "HTTPError")
                /\ ErrorsIs(clsErr, ErrRateLimited)
                /\ ~RetryableStatus(FirstLink(clsErr, "HTTPError").num)
    /\ (clsPc = "done" /\ clsErr = NewAPIError("RATE_LIMIT_EXCEEDED"))
          => (clsRateLimit /\ ~clsVerdict)

(***************************************************************************)
(* Further properties of the request executor.                             *)
(***************************************************************************)
\* the handler run that just ended, and whether it gave a response
LastOutcome == outcomes[Len(outcomes)]
\* a step in which a handler run ended with a response while attempts remain
ResponseWithAttemptsLeft ==
    /\ pc = "fn" /\ attempt < MaxRetries
    /\ Len(outcomes') = Len(outcomes) + 1
    /\ IsResponse(outcomes'[Len(outcomes')])

\* C24: a response is attempted again, while attempts remain, exactly when its
\* status is one the classifier calls retryable in a transport error: 408,
\* 429 or 500..599; a response with any other status ends the call.
C24_Step ==
    ResponseWithAttemptsLeft
        => ((pc' = "sleep")
              <=> RetryableStatus(outcomes'[Len(outcomes')].resp.status))
C24_RetriedStatuses == [][C24_Step]_vars

\* What the code does: Do tests the status itself (429 or >= 500) and the
\* retrier then asks the classifier, so 429 and 500..599 are attempted again
\* and 408 is not.
C24_CodeStep ==
    ResponseWithAttemptsLeft
        => ((pc' = "sleep")
              <=> LET st == outcomes'[Len(outcomes')].resp.status
                  IN  st = 429 \/ (st >= 500 /\ st <= 599))
C24_CodeBehaviour == [][C24_CodeStep]_vars

\* C25: when a handler run returns an error the classifier calls
\* non-retryable, that run is the last, there is no backoff sleep after it and
\* Do returns (nil, that very error): no stop-retrying marker around it.
C25_NonRetryableStops ==
    \A i \in 1..Len(outcomes) :
        (outcomes[i].err # Nil /\ ~RuleVerdict(outcomes[i].err))
            => /\ Done
               /\ i = Len(outcomes)
               /\ sleeps = i - 1
               /\ doRes = DoRes(NoResp, outcomes[i].err)
               /\ \A k \in 1..Len(doRes.err) : doRes.err[k].kind # "stopRetry"

\* a 503 answer, a sleep, then a connection failure: returned as it is
C25_Witness ==
    /\ Done /\ MaxRetries = 2 /\ NetworkCalls = 2 /\ sleeps = 1
    /\ IsResponse(outcomes[1]) /\ outcomes[1].resp.status = 503
    /\ outcomes[2] = Outcome(NoResp, ConnFailure)
    /\ retErr = FnRet(TRUE, ConnFailure)
    /\ doRes = DoRes(NoResp, ConnFailure)

\* C26: every attempt of one logical request transmits the same complete
\* request as the first: a retry is never sent with a consumed or empty body.
C26_SameRequestEachAttempt ==
    \A k \in 1..Len(sent) : sent[k] = sent[1] /\ sent[k] # "empty"

\* What the code does: a request without a body is sent alike every time; of a
\* request with a body only the first transmission carries it.
C26_CodeBehaviour ==
    \A k \in 1..Len(sent) :
        sent[k] = (IF sent[1] = "none" THEN "none"
                   ELSE IF k = 1 THEN "full" ELSE "empty")

\* C27: whatever MaxRetries is and whatever the responses are, Do returns
\* either a response and a nil error or no response and an error, never
\* (nil, nil); Post never touches a nil response.
C27_DoNeverNilNil ==
    Done => /\ (doRes.resp # NoResp) <=> (doRes.err = Nil)
            /\ postRes.err # NilDerefPanic

\* What the code does: with MaxRetries < 0 the retry loop is never entered,
\* Retrier.Do returns nil and Do returns (nil, nil), on which Post panics; with
\* MaxRetries >= 0 the claim holds.
C27_CodeBehaviour ==
    Done => /\ (MaxRetries >= 0)
                  => /\ (doRes.resp # NoResp) <=> (doRes.err = Nil)
                     /\ postRes.err # NilDerefPanic
            /\ (MaxRetries < 0)
                  => /\ NetworkCalls = 0
                     /\ doRes = DoRes(NoResp, Nil)
                     /\ postRes.err = NilDerefPanic

\* a status the executor attempts again: 429 or 5xx
IsRetriedStatus(st) == st = 429 \/ (st >= 500 /\ st <= 599)
Is2xx(st) == st >= 200 /\ st <= 299
\* the first Len(outcomes) - 1 runs ended in a retried status, the last in 2xx
RetriesThenSuccess ==
    /\ Len(outcomes) >= 1
    /\ IsResponse(LastOutcome) /\ Is2xx(LastOutcome.resp.status)
    /\ \A i \in 1..(Len(outcomes) - 1) :
          IsResponse(outcomes[i]) /\ IsRetriedStatus(outcomes[i].resp.status)

\* C28: when the first j attempts end in a retryable status and attempt j+1
\* returns a 2xx response, Do returns that response and a nil error after j+1
\* attempts and j sleeps; none of the earlier transport errors is returned.
C28_SuccessAfterRetries ==
    RetriesThenSuccess
        => /\ Done
           /\ Len(outcomes) <= MaxRetries + 1
           /\ sleeps = Len(outcomes) - 1
           /\ doRes = DoRes(LastOutcome.resp, Nil)

\* 503, 429, then 200: the 200 response is returned after two sleeps
C28_Witness ==
    /\ Done /\ MaxRetries = 2 /\ NetworkCalls = 3 /\ sleeps = 2
    /\ IsResponse(outcomes[1]) /\ outcomes[1].resp.status = 503
    /\ IsResponse(outcomes[2]) /\ outcomes[2].resp.status = 429
    /\ IsResponse(outcomes[3]) /\ outcomes[3].resp.status = 200
    /\ lastErr # Nil
    /\ doRes = DoRes(outcomes[3].resp, Nil)

====
